---- MODULE Spec2Model ----
(***************************************************************************)
(* A model of the image copy engine of copy/copy.go: Image(), the single   *)
(* image copier copyOneImage, the manifest list copier copyMultipleImages, *)
(* the layer loop and the blob pipeline copyBlobFromStream.                *)
(*                                                                         *)
(* Errors are github.com/pkg/errors values, modelled as the stack of their *)
(* messages with the cause last; the nil error is the empty stack.         *)
(* Digests are 1-tuples holding the hash; the empty digest "" is <<>>.     *)
(***************************************************************************)
EXTENDS Integers, Sequences, FiniteSets, TLC

VARIABLES
    pc,                 \* position of Image() and of the functions it calls
    options,            \* *Options passed to Image()
    rawSource,          \* what the source reference holds (manifest or list)
    retErr,             \* Image()'s named result
    handles,            \* dest / rawSource handle: "none", "open", "closed", "close failed"
    c,                  \* copier: cachedDiffIDs
    ic,                 \* imageCopier and the locals of copyOneImage
    ml,                 \* locals of copyMultipleImages
    putManifestCalls,   \* history: every dest.PutManifest call, in order
    putSignaturesCalls, \* history: every dest.PutSignatures call, in order
    commitCalls,        \* history: the results of dest.Commit calls, in order
    imageOps,           \* history: backend operations on the image being copied
    layerResults,       \* history: what the destination answered per layer
    blob                \* one run of the blob pipeline on its own

vars == <<pc, options, rawSource, retErr, handles, c, ic, ml, putManifestCalls,
          putSignaturesCalls, commitCalls, imageOps, layerResults, blob>>

mainVars == <<pc, options, rawSource, retErr, handles, c, ic, ml, putManifestCalls,
              putSignaturesCalls, commitCalls, imageOps, layerResults>>

----------------------------------------------------------------------------
(* Bounds of the model *)

MaxLen == 2
MaxLayers == 2
MaxInstances == 2

----------------------------------------------------------------------------
(* Errors *)

Nil == <<>>

Errorf(msg) == <<msg>>

\* errors.Wrap / errors.Wrapf: nil stays nil
Wrap(err, msg) == IF err = Nil THEN Nil ELSE <<msg>> \o err

Cause(err) == err[Len(err)]

ManifestTypeRejectedError == "ManifestTypeRejectedError"

----------------------------------------------------------------------------
(* Bytes, digests, compression *)

GzMagic == 2

Bytes == {0, 1, GzMagic}

Streams == UNION {[1..n -> Bytes] : n \in 0..MaxLen}

HashMod == 3

NoDigest == <<>>

AllDigests == {<<h>> : h \in 0..(HashMod - 1)}

\* digester.Hash().Write(p[:n]): the running hash after one more byte
HashWrite(h, b) == (2 * h + b + 1) % HashMod

RECURSIVE HashOf(_)
HashOf(data) ==
    IF data = <<>> THEN 0
    ELSE HashWrite(HashOf(SubSeq(data, 1, Len(data) - 1)), data[Len(data)])

\* digester.Digest()
DigestOf(data) == <<HashOf(data)>>

\* expectedDigest.Validate() and Algorithm().Available()
ValidDigest(d) == d \in AllDigests

\* compression.DetectCompression: a decompressor iff the prefix is the gzip magic
PeekLen == 1

DetectCompression(data) == Len(data) >= PeekLen /\ data[1] = GzMagic

\* gzip.NewWriter + io.Copy
Compress(data) == <<GzMagic>> \o data

Decompress(data) == Tail(data)

\* computeDiffID: the digest of the uncompressed stream
computeDiffID(data, isCompressed) ==
    IF isCompressed THEN DigestOf(Decompress(data)) ELSE DigestOf(data)

BlobInfo(digest, size, urls) == [Digest |-> digest, Size |-> size, URLs |-> urls]

NoBlobInfo == BlobInfo(NoDigest, 0, FALSE)

----------------------------------------------------------------------------
(* The destination's PutBlob, as the pipeline sees it: whether it reads the *)
(* stream to end-of-input, whether it reports a failed read, whether it     *)
(* fails on its own, and the digest it returns.                             *)

PutBlobBehaviours ==
    {[full |-> FALSE, swallow |-> FALSE, fails |-> TRUE, digest |-> DigestOf(<<>>)]}
    \cup
    {[full |-> rd[1], swallow |-> rd[2], fails |-> FALSE, digest |-> d] :
        rd \in {<<TRUE, FALSE>>, <<TRUE, TRUE>>, <<FALSE, FALSE>>}, d \in AllDigests}

\* what one run of the pipeline draws from its environment: PutBlob's behaviour,
\* dest.ShouldCompressLayers(), and what is observed of a compressor task that
\* is still running (only when there is one)
PipelineDraws ==
    {[put |-> p, shouldCompress |-> sc, raced |-> r] :
        p \in PutBlobBehaviours, sc \in BOOLEAN, r \in BOOLEAN}

PipelineDrawsFor(canCompress) ==
    {d \in PipelineDraws :
        /\ d.raced => (canCompress /\ d.shouldCompress /\ ~d.put.full /\ ~d.put.fails)
        /\ d.shouldCompress => canCompress}

\* a digesting reader that never records a failed validation
digestingReaderNeverFails(data, tee, compress, put) == FALSE

\* the digesting reader observed end-of-input before the final checks:
\* validationFailed is written only there (digestingReader.Read)
digestingReaderSawEOF(data, tee, compress, put) ==
    \/ Len(data) < PeekLen
    \/ put.full
    \/ tee /\ ~compress

\* a compression that asks only the destination
compressWhenDestinationAsks(canCompress, isCompressed, shouldCompress) ==
    ~isCompressed /\ shouldCompress

\* line 841: the blob is compressed on the fly
compressOnTheFly(canCompress, isCompressed, shouldCompress) ==
    ~(~canCompress \/ isCompressed \/ ~shouldCompress)

\* copyBlobFromStream: the result of the pipeline on the stream `data`.
\* `raced` is what the main task observes of a compressor task that is still
\* reading when PutBlob has returned before end-of-input.
copyBlobFromStream(data, srcInfo, tee, canCompress, shouldCompress, put, raced) ==
    LET mismatch == DigestOf(data) # srcInfo.Digest
        isCompressed == DetectCompression(data)
        compress == compressOnTheFly(canCompress, isCompressed, shouldCompress)
        inputInfo == IF compress THEN BlobInfo(NoDigest, -1, FALSE) ELSE srcInfo
        destBytes == IF compress THEN Compress(data) ELSE data
        running == compress /\ ~put.full
        readErr == put.full /\ mismatch
        putErr == IF put.fails THEN Errorf("PutBlob failed")
                  ELSE IF readErr /\ ~put.swallow THEN Errorf("Digest did not match")
                  ELSE Nil
        drainErr == tee /\ (IF running THEN raced ELSE mismatch)
        validationFailed ==
            IF running THEN raced /\ (tee \/ mismatch)
            ELSE mismatch /\ digestingReaderSawEOF(data, tee, compress, put)
        uploadedInfo == BlobInfo(put.digest,
                                 IF put.full THEN Len(destBytes) ELSE inputInfo.Size,
                                 FALSE)
        err ==
            IF ~ValidDigest(srcInfo.Digest)
            THEN Errorf("Error preparing to verify blob")
            ELSE IF Len(data) < PeekLen /\ mismatch
            THEN Wrap(Errorf("Digest did not match"), "Error reading blob")
            ELSE IF putErr # Nil
            THEN Wrap(putErr, "Error writing blob")
            ELSE IF drainErr
            THEN Wrap(Errorf("Digest did not match"), "Error reading input blob")
            ELSE IF validationFailed
            THEN Errorf("Internal error writing blob, digest verification failed but was ignored")
            ELSE IF inputInfo.Digest # NoDigest /\ uploadedInfo.Digest # inputInfo.Digest
            THEN Errorf("Internal error writing blob, blob saved with another digest")
            ELSE Nil
    IN [err |-> err,
        info |-> IF err = Nil THEN uploadedInfo ELSE NoBlobInfo,
        inputInfo |-> inputInfo,
        compress |-> compress,
        called |-> ValidDigest(srcInfo.Digest) /\ ~(Len(data) < PeekLen /\ mismatch),
        delivered |-> IF put.full THEN destBytes ELSE <<>>,
        diffID |-> IF tee /\ err = Nil THEN computeDiffID(data, isCompressed) ELSE NoDigest,
        validationFailed |-> validationFailed]

----------------------------------------------------------------------------
(* Manifests.  Manifest bytes are modelled by what they say: the media     *)
(* type, the layers, whether the embedded Docker reference is the          *)
(* destination's, and whether they are the bytes the source served         *)
(* (gen = 0) or a serialization made by this copy (gen = 1).               *)

DockerV2Schema1SignedMediaType == "application/vnd.docker.distribution.manifest.v1+prettyjws"
DockerV2Schema2MediaType == "application/vnd.docker.distribution.manifest.v2+json"
MediaTypeImageManifest == "application/vnd.oci.image.manifest.v1+json"
DockerV2ListMediaType == "application/vnd.docker.distribution.manifest.list.v2+json"
MediaTypeImageIndex == "application/vnd.oci.image.index.v1+json"

ImageTypes == {DockerV2Schema1SignedMediaType, DockerV2Schema2MediaType, MediaTypeImageManifest}
ListTypes == {DockerV2ListMediaType, MediaTypeImageIndex}

\* manifest.MIMETypeIsMultiImage
MIMETypeIsMultiImage(mtype) == mtype \in ListTypes

\* the manifest of a single image, as the source serves it
ImageManifest(mtype, layers) ==
    [MIMEType |-> mtype, Layers |-> layers, Ref |-> "source", gen |-> 0]

\* the result of returning no manifest at all (a nil byte slice)
NilManifest == [MIMEType |-> "", Layers |-> <<>>, Ref |-> "", gen |-> 0]

\* len(manifest)
ManifestLen(m) == IF m = NilManifest THEN 0 ELSE 1 + Len(m.Layers) + m.gen

\* manifest.Digest
ManifestDigest(m) == <<m>>

\* one entry of a manifest list
Instance(m) == [Digest |-> ManifestDigest(m), Size |-> ManifestLen(m), MediaType |-> m.MIMEType]

\* a manifest list, as the source serves it: its bytes and the images it names
ListManifest(mtype, images) ==
    [MIMEType |-> mtype,
     Instances |-> [i \in 1..Len(images) |-> Instance(images[i])],
     gen |-> 0]

LayerA == BlobInfo(<<1>>, MaxLen, FALSE)
LayerB == BlobInfo(<<2>>, -1, TRUE)

\* the digest of the config blob of the source images that have one
ConfigDigest == <<0>>

\* the layer lists of the source images: LayerA and LayerB in turn, or LayerA
\* repeated
LayerLists ==
    {[i \in 1..n |-> IF i % 2 = 1 THEN LayerA ELSE second] :
        n \in 0..MaxLayers, second \in {LayerA, LayerB}}

\* the single images of the sources: schema1 images with every layer list,
\* and an image of every type with one layer
SingleImages ==
    {ImageManifest(DockerV2Schema1SignedMediaType, l) : l \in LayerLists}
    \cup {ImageManifest(t, <<LayerA>>) : t \in ImageTypes}

\* what a manifest list may name: single images, or (wrongly) a list
InstanceImage(i) ==
    ImageManifest(IF i % 2 = 1 THEN DockerV2Schema2MediaType
                  ELSE DockerV2Schema1SignedMediaType, <<>>)

NestedList == ImageManifest(DockerV2ListMediaType, <<>>)

\* the images behind a list: schema2 and schema1 images in turn, or a list
InstanceLists ==
    {[i \in 1..n |-> InstanceImage(i)] : n \in 1..MaxInstances}
    \cup {<<NestedList>>}

\* rawSource: the top-level manifest and, for a list, the images behind it
RawSources ==
    {[multi |-> FALSE, manifest |-> m, images |-> <<m>>] : m \in SingleImages}
    \cup
    {[multi |-> TRUE, manifest |-> ListManifest(t, il), images |-> il] :
        t \in ListTypes, il \in InstanceLists}

\* isMultiImage: only the MIME type is inspected
isMultiImage(m) == MIMETypeIsMultiImage(m.MIMEType)

\* the media type lists a destination may advertise
SupportedTypeLists ==
    { <<>>,
      <<DockerV2Schema2MediaType>>,
      <<DockerV2Schema1SignedMediaType, DockerV2Schema2MediaType, MediaTypeImageManifest>>,
      <<MediaTypeImageManifest, MediaTypeImageIndex>> }

Range(s) == {s[i] : i \in 1..Len(s)}

\* the elements of the sequence s that satisfy Keep, in order
RECURSIVE SelectIn(_, _)
SelectIn(s, keep) ==
    IF s = <<>> THEN <<>>
    ELSE (IF Head(s) \in keep THEN <<Head(s)>> ELSE <<>>) \o SelectIn(Tail(s), keep)

\* ranked preference of single-image manifest types
preferredManifestMIMETypes ==
    <<DockerV2Schema2MediaType, MediaTypeImageManifest, DockerV2Schema1SignedMediaType>>

\* determineManifestConversion: (preferred, other candidates)
determineManifestConversion(srcType, supported, force) ==
    IF force # ""
    THEN [preferred |-> force, others |-> <<>>]
    ELSE IF supported = <<>>
    THEN [preferred |-> srcType, others |-> <<>>]
    ELSE LET sup == Range(supported)
             ranked == SelectIn(preferredManifestMIMETypes, sup \ {srcType})
             rest == SelectIn(supported, sup \ (Range(preferredManifestMIMETypes) \cup {srcType}))
             all == (IF srcType \in sup THEN <<srcType>> ELSE <<>>) \o ranked \o rest
         IN [preferred |-> Head(all), others |-> Tail(all)]

\* determineListConversion: the list type to write, "" when none is acceptable
determineListConversion(listType, supported) ==
    IF supported = <<>> \/ listType \in Range(supported) THEN listType
    ELSE LET cands == SelectIn(<<DockerV2ListMediaType, MediaTypeImageIndex>>, Range(supported))
         IN IF cands = <<>> THEN "" ELSE Head(cands)

\* a destination that names its types is taken to accept lists as well
everyDestinationTakesLists(mtypes) == TRUE

\* supportsMultipleImages
supportsMultipleImages(mtypes) ==
    IF Len(mtypes) = 0 THEN TRUE
    ELSE \E i \in 1..Len(mtypes) : MIMETypeIsMultiImage(mtypes[i])

\* types.ManifestUpdateOptions; a nil LayerInfos is set = FALSE
NoUpdates ==
    [LayerInfos |-> [set |-> FALSE, infos |-> <<>>],
     EmbeddedDockerReference |-> FALSE,
     ManifestMIMEType |-> "",
     InformationOnly |-> [LayerInfos |-> <<>>, LayerDiffIDs |-> <<>>]]

\* reflect.DeepEqual(*ic.manifestUpdates, ManifestUpdateOptions{InformationOnly: ...})
UpdatesAreTrivial(u) == u = [NoUpdates EXCEPT !.InformationOnly = u.InformationOnly]

\* src.UpdatedImageNeedsLayerDiffIDs: only when converting schema1 to schema2 / OCI
UpdatedImageNeedsLayerDiffIDs(m, u) ==
    /\ m.MIMEType = DockerV2Schema1SignedMediaType
    /\ u.ManifestMIMEType \in {DockerV2Schema2MediaType, MediaTypeImageManifest}

\* src.UpdatedImage(updates) converts between the single-image types only
ConversionImplemented(u) == u.ManifestMIMEType \in ImageTypes \cup {""}

\* src.UpdatedImage(updates).Manifest(): a new serialization
UpdatedImage(m, u) ==
    [MIMEType |-> IF u.ManifestMIMEType # "" THEN u.ManifestMIMEType ELSE m.MIMEType,
     Layers |-> IF u.LayerInfos.set THEN u.LayerInfos.infos ELSE m.Layers,
     Ref |-> IF u.EmbeddedDockerReference THEN "destination" ELSE m.Ref,
     gen |-> 1]

\* a comparison of the whole BlobInfos instead of their digests
layerInfosDiffer(a, b) == a # b

\* layerDigestsDiffer (lines 597-607)
layerDigestsDiffer(a, b) ==
    \/ Len(a) # Len(b)
    \/ \E i \in 1..Len(a) : a[i].Digest # b[i].Digest

\* c.createSignature
createSignature(m, keyIdentity) == [by |-> keyIdentity, over |-> m]

SourceSignature == [by |-> "source", over |-> NilManifest]

----------------------------------------------------------------------------
(* Options and the initial state *)

CopyOnlyCurrentRuntimeImage == 0
CopyAllImages == 1

OptionsSet ==
    [RemoveSignatures : BOOLEAN,
     SignBy : {"", "key"},
     ForceManifestMIMEType : {"", DockerV2Schema2MediaType},
     MultipleImages : {CopyOnlyCurrentRuntimeImage, CopyAllImages, CopyAllImages + 1}]

\* imageCopier and the locals of copyOneImage, before any image is copied
NoIC ==
    [src |-> NilManifest,
     fromList |-> FALSE,
     targetInstance |-> FALSE,
     sigs |-> <<>>,
     canModifyManifest |-> TRUE,
     supported |-> <<>>,
     manifestUpdates |-> NoUpdates,
     diffIDsAreNeeded |-> FALSE,
     preferredManifestMIMEType |-> "",
     otherManifestMIMETypeCandidates |-> <<>>,
     srcInfos |-> <<>>,
     srcInfosUpdated |-> FALSE,
     destInfos |-> <<>>,
     diffIDs |-> <<>>,
     manifest |-> NilManifest,
     retManifestType |-> "",
     layer |-> 1,
     candidate |-> 1,
     errs |-> <<>>]

\* the locals of copyMultipleImages, before it runs
\* destTypes holds what c.dest.SupportedManifestMIMETypes() answered at line 228,
\* instanceDigest is the local of Image() set at line 196, chooseCalls holds
\* the system context and the validity of the list bytes of lines 192-196
NoML ==
    [sigs |-> <<>>, i |-> 1, updates |-> <<>>, destTypes |-> <<>>,
     instanceDigest |-> NoDigest, chooseCalls |-> <<>>, listOps |-> {}]

NoBlob == [state |-> "idle"]

\* line 164: the DiffID cache of a new copier
NoCachedDiffIDs == [d \in AllDigests |-> NoDigest]

\* nothing has run yet
NothingDone ==
    /\ retErr = Nil
    /\ handles = [dest |-> "none", src |-> "none"]
    /\ c = [cachedDiffIDs |-> NoCachedDiffIDs]
    /\ ic = NoIC
    /\ ml = NoML
    /\ putManifestCalls = <<>>
    /\ putSignaturesCalls = <<>>
    /\ commitCalls = <<>>
    /\ imageOps = {}
    /\ layerResults = <<>>

MainInit ==
    /\ pc = "Image"
    /\ options \in OptionsSet
    /\ rawSource \in RawSources
    \* CopyAllImages differs from the default only for a manifest list
    /\ options.MultipleImages = CopyAllImages => rawSource.multi
    /\ NothingDone

Init == MainInit /\ blob = NoBlob

history == <<putManifestCalls, putSignaturesCalls, commitCalls, imageOps>>

----------------------------------------------------------------------------
(* Image(): entry, dispatch, commit, deferred closes *)

\* an error return of Image() after both defers are registered
ImageReturns(err) == pc' = "deferSource" /\ retErr' = err

\* lines 129-150: option check, destRef.NewImageDestination
ImageStart ==
    /\ pc = "Image"
    /\ IF options.MultipleImages # CopyAllImages
          /\ options.MultipleImages # CopyOnlyCurrentRuntimeImage
       THEN /\ retErr' = Errorf("Invalid value for options.MultipleImages")
            /\ pc' = "done"
            /\ UNCHANGED handles
       ELSE \E ok \in BOOLEAN :
              IF ok
              THEN /\ handles' = [handles EXCEPT !.dest = "open"]
                   /\ pc' = "NewImageSource"
                   /\ UNCHANGED retErr
              ELSE /\ retErr' = Wrap(Errorf("NewImageDestination failed"),
                                     "Error initializing destination")
                   /\ pc' = "done"
                   /\ UNCHANGED handles
    /\ UNCHANGED <<options, rawSource, c, ic, ml, history, layerResults, blob>>

\* a return that runs no deferred call
returnsWithoutDefers == "done"

\* lines 146-155: NewImageSource fails after dest.Close() has been deferred
sourceOpenFailureReturnsTo == "deferDest"

\* lines 147 and 157: what a Close() call leaves of a handle
Closed(err) == IF err # Nil THEN "close failed" ELSE "closed"

\* lines 152-160: srcRef.NewImageSource
OpenSource ==
    /\ pc = "NewImageSource"
    /\ \E ok \in BOOLEAN :
         IF ok
         THEN /\ handles' = [handles EXCEPT !.src = "open"]
              /\ pc' = "Manifest"
              /\ UNCHANGED retErr
         ELSE /\ retErr' = Wrap(Errorf("NewImageSource failed"), "Error initializing source")
              /\ pc' = sourceOpenFailureReturnsTo
              /\ UNCHANGED handles
    /\ UNCHANGED <<options, rawSource, c, ic, ml, history, layerResults, blob>>

\* the first image of the list, whatever digest is asked for
firstInstance(src, instanceDigest) == src.images[1]

\* image.UnparsedInstance(rawSource, &instanceDigest): the image the source
\* serves under that digest
UnparsedInstance(src, instanceDigest) ==
    CHOOSE m \in Range(src.images) : ManifestDigest(m) = instanceDigest

\* the call c.copyOneImage(policyContext, options, unparsedImage, sourceInstance, targetInstance)
CallCopyOneImage(m, fromList) ==
    /\ ic' = [NoIC EXCEPT !.src = m, !.fromList = fromList, !.targetInstance = fromList]
    /\ imageOps' = {}
    /\ pc' = "copyOneImage"

\* lines 172-180: reading the top-level manifest fails
ReadManifestFails ==
    /\ pc = "Manifest"
    /\ ImageReturns(Wrap(Errorf("GetManifest failed"), "Error reading manifest"))
    /\ UNCHANGED <<options, rawSource, handles, c, ic, ml, history, layerResults, blob>>

\* lines 182-186: the source is a single image
DispatchSingle ==
    /\ pc = "Manifest"
    /\ ~isMultiImage(rawSource.manifest)
    /\ CallCopyOneImage(rawSource.manifest, FALSE)
    /\ UNCHANGED <<options, rawSource, retErr, handles, c, ml, putManifestCalls,
                   putSignaturesCalls, commitCalls, layerResults, blob>>

\* the (architecture, OS) choices of a system context
PlatformChoices == [arch : {"amd64", "ppc64le"}, os : {"linux", "Unmatched"}]

\* the platform of the entries of a list: amd64 and ppc64le in turn, all linux
PlatformOf(i) == [arch |-> IF i % 2 = 1 THEN "amd64" ELSE "ppc64le", os |-> "linux"]

\* a choice that takes the first entry whatever its platform
choosesFirstEntry(ctx, list, valid) ==
    IF ~valid THEN [err |-> Errorf("invalid manifest list"), digest |-> NoDigest]
    ELSE [err |-> Nil, digest |-> list.Instances[1].Digest]

\* chooseDigestFromImageIndex / manifestList.ChooseInstance: the digest of the
\* first entry whose platform has the wanted architecture and OS
chooseDigestFromImageIndex(ctx, list, valid) ==
    LET matching == {i \in 1..Len(list.Instances) : PlatformOf(i) = ctx}
    IN IF ~valid
       THEN [err |-> Errorf("invalid manifest list"), digest |-> NoDigest]
       ELSE IF matching = {}
       THEN [err |-> Errorf("no image found in manifest list for architecture, OS"),
             digest |-> NoDigest]
       ELSE [err |-> Nil,
             digest |-> list.Instances[CHOOSE i \in matching :
                                          \A j \in matching : i <= j].Digest]

\* lines 189-205: a list, and only the current runtime's image is wanted;
\* ListFromBlob or ChooseInstance may fail, else ChooseInstance picks an entry
DispatchCurrentRuntime ==
    /\ pc = "Manifest"
    /\ isMultiImage(rawSource.manifest)
    /\ options.MultipleImages = CopyOnlyCurrentRuntimeImage
    /\ \E valid \in BOOLEAN, ctx \in PlatformChoices :
         LET chosen == chooseDigestFromImageIndex(ctx, rawSource.manifest, valid)
             call == [ctx |-> ctx, valid |-> valid]
         IN IF ~valid
            THEN /\ ImageReturns(Wrap(chosen.err, "Error parsing primary manifest as list"))
                 /\ ml' = [ml EXCEPT !.chooseCalls = <<call>>]
                 /\ UNCHANGED <<ic, imageOps>>
            ELSE IF chosen.err # Nil
            THEN /\ ImageReturns(Wrap(chosen.err, "Error choosing an image from manifest list"))
                 /\ ml' = [ml EXCEPT !.chooseCalls = <<call>>]
                 /\ UNCHANGED <<ic, imageOps>>
            ELSE /\ ml' = [ml EXCEPT !.chooseCalls = <<call>>,
                                     !.instanceDigest = chosen.digest]
                 /\ CallCopyOneImage(UnparsedInstance(rawSource, chosen.digest), FALSE)
                 /\ UNCHANGED retErr
    /\ UNCHANGED <<options, rawSource, handles, c, putManifestCalls,
                   putSignaturesCalls, commitCalls, layerResults, blob>>

\* lines 206-215: a list, and all images are wanted
DispatchAll ==
    /\ pc = "Manifest"
    /\ isMultiImage(rawSource.manifest)
    /\ options.MultipleImages # CopyOnlyCurrentRuntimeImage
    /\ \E mtypes \in SupportedTypeLists :
         /\ ml' = [ml EXCEPT !.destTypes = <<mtypes>>]
         /\ IF ~supportsMultipleImages(mtypes)
            THEN ImageReturns(Errorf("Error copying multiple images: destination does not support multiple images"))
            ELSE pc' = "copyMultipleImages" /\ UNCHANGED retErr
    /\ UNCHANGED <<options, rawSource, handles, c, ic, history, layerResults, blob>>

\* lines 218-222: c.dest.Commit()
Commit ==
    /\ pc = "Commit"
    /\ \E err \in {Nil, Errorf("Commit failed")} :
         /\ commitCalls' = Append(commitCalls, err)
         /\ retErr' = Wrap(err, "Error committing the finished image")
    /\ pc' = "deferSource"
    /\ UNCHANGED <<options, rawSource, handles, c, ic, ml, putManifestCalls,
                   putSignaturesCalls, imageOps, layerResults, blob>>

\* lines 156-160: the deferred rawSource.Close()
CloseSource ==
    /\ pc = "deferSource"
    /\ \E err \in {Nil, Errorf("source Close failed")} :
         /\ handles' = [handles EXCEPT !.src = Closed(err)]
         /\ retErr' = IF err # Nil THEN Wrap(retErr, " (src: error)") ELSE retErr
    /\ pc' = "deferDest"
    /\ UNCHANGED <<options, rawSource, c, ic, ml, history, layerResults, blob>>

\* lines 146-150: the deferred dest.Close()
CloseDest ==
    /\ pc = "deferDest"
    /\ \E err \in {Nil, Errorf("dest Close failed")} :
         /\ handles' = [handles EXCEPT !.dest = Closed(err)]
         /\ retErr' = IF err # Nil THEN Wrap(retErr, " (dest: error)") ELSE retErr
    /\ pc' = "done"
    /\ UNCHANGED <<options, rawSource, c, ic, ml, history, layerResults, blob>>

----------------------------------------------------------------------------
(* copyOneImage *)

\* manifest.ListUpdate built from what copyOneImage returned (lines 285-294)
ListUpdate(man, mtype) ==
    [Digest |-> ManifestDigest(man), Size |-> ManifestLen(man), MediaType |-> mtype]

\* copyOneImage returns (man, mtype, err) to its caller: Image() (lines 184-186,
\* 203-205) or the instance loop of copyMultipleImages (lines 280-294); the
\* imageCopier and the other locals of copyOneImage end with the call
copyOneImageReturns(man, mtype, err) ==
    /\ ic' = NoIC
    /\ layerResults' = <<>>
    /\ IF err # Nil
       THEN /\ ImageReturns(err)
            /\ UNCHANGED ml
       ELSE IF ic.fromList
       THEN /\ ml' = [ml EXCEPT !.updates = Append(@, ListUpdate(man, mtype)), !.i = @ + 1]
            /\ pc' = "instanceLoop"
            /\ UNCHANGED retErr
       ELSE /\ pc' = "Commit"
            /\ UNCHANGED <<retErr, ml>>

\* copyOneImage goes on to its next step with the locals icv
copyOneImageContinues(step, icv) ==
    /\ pc' = step
    /\ ic' = icv
    /\ UNCHANGED <<retErr, ml, layerResults>>

PolicyOutcomes == [allowed : BOOLEAN, err : {Nil, Errorf("policy requirement not satisfied")}]

\* copyOneImage without the policy gate: the image is parsed right away
PolicyCheckAfterParsing ==
    /\ pc = "copyOneImage"
    /\ imageOps' = imageOps \cup {"FromUnparsedImage"}
    /\ copyOneImageContinues("FromUnparsedImage", ic)
    /\ UNCHANGED <<options, rawSource, handles, c, putManifestCalls, putSignaturesCalls,
                   commitCalls, blob>>

\* lines 371-385: the MIME type check and the policy check
PolicyCheck ==
    /\ pc = "copyOneImage"
    /\ IF isMultiImage(ic.src)
       THEN /\ copyOneImageReturns(NilManifest, "",
                   Errorf("Unexpectedly received a manifest list instead of a manifest for a single image"))
            /\ UNCHANGED imageOps
       ELSE \E p \in PolicyOutcomes :
              /\ imageOps' = imageOps \cup {"IsRunningImageAllowed"}
                     \cup (IF p.allowed /\ p.err = Nil THEN {"policy allows"} ELSE {})
              /\ IF ~p.allowed \/ p.err # Nil
                 THEN copyOneImageReturns(NilManifest, "", Wrap(p.err, "Source image rejected"))
                 ELSE copyOneImageContinues("FromUnparsedImage", ic)
    /\ UNCHANGED <<options, rawSource, handles, c, putManifestCalls, putSignaturesCalls,
                   commitCalls, blob>>

OSNames == {"linux", "windows", "darwin"}

\* checkImageDestinationForCurrentRuntimeOS (lines 510-528): TRUE iff it rejects
checkImageDestinationForCurrentRuntimeOS(mustMatch, wantedOS, imageOS) ==
    /\ mustMatch
    /\ \/ wantedOS = "windows" /\ imageOS = "linux"
       \/ wantedOS # "windows" /\ imageOS = "windows"

\* lines 386-393: image.FromUnparsedImage and the runtime OS check
InitImage ==
    /\ pc = "FromUnparsedImage"
    /\ imageOps' = imageOps \cup {"FromUnparsedImage"}
    /\ \E parsed \in BOOLEAN, mustMatch \in BOOLEAN, wantedOS \in OSNames, imageOS \in OSNames :
         IF ~parsed
         THEN copyOneImageReturns(NilManifest, "",
                  Wrap(Errorf("invalid manifest"), "Error initializing image from source"))
         ELSE IF checkImageDestinationForCurrentRuntimeOS(mustMatch, wantedOS, imageOS)
         THEN copyOneImageReturns(NilManifest, "",
                  Errorf("image operating system cannot be used"))
         ELSE copyOneImageContinues("Signatures", ic)
    /\ UNCHANGED <<options, rawSource, handles, c, putManifestCalls, putSignaturesCalls,
                   commitCalls, blob>>

\* what src.Signatures / rawSource.GetSignatures may answer
SignatureLists == {<<>>, <<SourceSignature>>}

\* lines 395-419: the signatures to carry, dest.SupportsSignatures, the imageCopier
CollectSignatures ==
    /\ pc = "Signatures"
    /\ \E readErr \in BOOLEAN, s \in SignatureLists, supported \in BOOLEAN :
         LET sigs == IF options.RemoveSignatures THEN <<>> ELSE s
         IN IF ~options.RemoveSignatures /\ readErr
            THEN /\ copyOneImageReturns(NilManifest, "",
                        Wrap(Errorf("GetSignatures failed"), "Error reading signatures"))
                 /\ imageOps' = imageOps \cup {"Signatures"}
            ELSE IF Len(sigs) # 0 /\ ~supported
            THEN /\ copyOneImageReturns(NilManifest, "",
                        Wrap(Errorf("signatures not supported"), "Can not copy signatures"))
                 /\ imageOps' = imageOps \cup {"Signatures", "SupportsSignatures"}
            ELSE /\ copyOneImageContinues("updateEmbeddedDockerReference",
                        [ic EXCEPT !.sigs = sigs, !.canModifyManifest = (Len(sigs) = 0)])
                 /\ imageOps' = imageOps
                        \cup (IF options.RemoveSignatures THEN {} ELSE {"Signatures"})
                        \cup (IF Len(sigs) # 0 THEN {"SupportsSignatures"} ELSE {})
    /\ UNCHANGED <<options, rawSource, handles, c, putManifestCalls, putSignaturesCalls,
                   commitCalls, blob>>

\* updateEmbeddedDockerReference (lines 531-546): the updates after it, and its error
updateEmbeddedDockerReference(icv, destHasRef, conflicts) ==
    IF ~destHasRef \/ ~conflicts
    THEN [err |-> Nil, updates |-> icv.manifestUpdates]
    ELSE IF ~icv.canModifyManifest
    THEN [err |-> Errorf("Copying a schema1 image with an embedded Docker reference would invalidate existing signatures"),
          updates |-> icv.manifestUpdates]
    ELSE [err |-> Nil,
          updates |-> [icv.manifestUpdates EXCEPT !.EmbeddedDockerReference = TRUE]]

\* src.EmbeddedDockerReferenceConflicts: only schema1 manifests embed a reference
MayConflict(m) ==
    IF m.MIMEType = DockerV2Schema1SignedMediaType THEN BOOLEAN ELSE {FALSE}

\* lines 421-433: the embedded reference, the manifest type negotiation and
\* whether DiffIDs are needed
PrepareManifest ==
    /\ pc = "updateEmbeddedDockerReference"
    /\ \E destHasRef \in BOOLEAN, conflicts \in MayConflict(ic.src),
          supported \in SupportedTypeLists :
         LET ref == updateEmbeddedDockerReference(ic, destHasRef, conflicts)
             conv == determineManifestConversion(ic.src.MIMEType, supported,
                                                 options.ForceManifestMIMEType)
             updates == IF conv.preferred # ic.src.MIMEType
                        THEN [ref.updates EXCEPT !.ManifestMIMEType = conv.preferred]
                        ELSE ref.updates
         IN IF ref.err # Nil
            THEN copyOneImageReturns(NilManifest, "", ref.err)
            ELSE copyOneImageContinues("copyLayers",
                     [ic EXCEPT
                        !.supported = supported,
                        !.manifestUpdates = updates,
                        !.preferredManifestMIMEType = conv.preferred,
                        !.otherManifestMIMETypeCandidates = conv.others,
                        !.diffIDsAreNeeded = UpdatedImageNeedsLayerDiffIDs(ic.src, updates)])
    /\ UNCHANGED <<options, rawSource, handles, c, history, blob>>

----------------------------------------------------------------------------
(* copyLayers and copyLayer *)

\* what dest.HasBlob, dest.ReapplyBlob and rawSource.GetBlob may answer
HasBlobAbsent == [err |-> FALSE, present |-> FALSE, size |-> -1]

HasBlobPresent(size) == [err |-> FALSE, present |-> TRUE, size |-> size]

HasBlobOutcomes ==
    {[err |-> TRUE, present |-> FALSE, size |-> -1], HasBlobAbsent}
    \cup {HasBlobPresent(n) : n \in {MaxLen, MaxLen + 1}}

\* a digest other than d
OtherDigest(d) == <<(d[1] + 1) % HashMod>>

ReapplyBlobFails == [err |-> TRUE, digest |-> DigestOf(<<>>)]

\* ReapplyBlob fails, or returns the digest it was given, or another one
ReapplyBlobOutcomes(digest) ==
    {ReapplyBlobFails} \cup {[err |-> FALSE, digest |-> d] : d \in {digest, OtherDigest(digest)}}

GetBlobFails == [err |-> TRUE, data |-> <<>>]

\* the blob the source may hold under a digest: the plain or the gzip stream
\* with that digest, or a stream with another digest
SourceBlobs(digest) ==
    LET whole == {data \in Streams : Len(data) = MaxLen}
    IN {CHOOSE data \in whole : ~DetectCompression(data) /\ DigestOf(data) = digest,
        CHOOSE data \in whole : DetectCompression(data) /\ DigestOf(data) = digest,
        CHOOSE data \in whole : DigestOf(data) # digest}

GetBlobOutcomes(digest) ==
    {GetBlobFails} \cup {[err |-> FALSE, data |-> data] : data \in SourceBlobs(digest)}

\* PutBlob as the copies of an image's blobs meet it: it fails, or it reads
\* the stream to the end or returns before that, and it returns the digest of
\* the source blob or another one
DestinationPuts(digest) ==
    {p \in PutBlobBehaviours :
        p.fails \/ (~p.swallow /\ p.digest \in {digest, OtherDigest(digest)})}

\* the pipeline draws of a layer copy: a PutBlob that returns before
\* end-of-input is met with the stream as it is, not with a compressor task
LayerPipelineDraws(digest, canCompress) ==
    {d \in PipelineDrawsFor(canCompress) :
        /\ d.put \in DestinationPuts(digest)
        /\ d.shouldCompress => (d.put.full \/ d.put.fails)}

\* what one copyLayer call draws from its environment; an answer is drawn
\* only for the calls that can be made
LayerDraws(digest, canCompress) ==
    LET draw(has, reapply, get, pipe, diffErr) ==
            [has |-> has, reapply |-> reapply, get |-> get, pipe |-> pipe,
             diffErr |-> diffErr]
        noPipe == CHOOSE d \in PipelineDrawsFor(FALSE) : d.put.fails
    IN {draw(has, reapply, GetBlobFails, noPipe, FALSE) :
            has \in HasBlobOutcomes, reapply \in ReapplyBlobOutcomes(digest)}
       \cup
       {draw(has, ReapplyBlobFails, get, pipe, diffErr) :
            has \in {HasBlobAbsent, HasBlobPresent(MaxLen)},
            get \in GetBlobOutcomes(digest) \ {GetBlobFails},
            pipe \in LayerPipelineDraws(digest, canCompress), diffErr \in BOOLEAN}

\* a size check that never objects
sizesNeverDisagree(srcInfo, has) == FALSE

\* lines 695-697: the source asserts a size other than the one HasBlob reports
sizesDisagree(srcInfo, has) == srcInfo.Size # -1 /\ srcInfo.Size # has.size

\* a DiffID that is never asked for
diffIDNeverNeeded(icv, cached, digest) == FALSE

\* line 691: the DiffID is needed and no earlier layer copy of this copier cached it
diffIDIsNeeded(icv, cached, digest) == icv.diffIDsAreNeeded /\ cached[digest] = NoDigest

\* a blob that is skipped whenever the destination has it
blobSkippedWhenPresent(has, needed) == has.present

\* line 693: the destination has the blob and no DiffID has to be computed
blobCanBeSkipped(has, needed) == has.present /\ ~needed

\* a layer pipeline that may always compress
layersAlwaysCompressible(icv) == TRUE

\* lines 762-763: copyLayerFromStream passes ic.canModifyManifest as canCompress
canCompressLayer(icv) == icv.canModifyManifest

\* copyLayer (lines 684-731) with copyLayerFromStream (lines 737-765): the
\* returned BlobInfo, DiffID and error, the DiffID cache afterwards, and the
\* backend calls made
copyLayer(srcInfo, icv, cached, has, reapply, get, put, raced, shouldCompress, diffErr) ==
    LET needed == diffIDIsNeeded(icv, cached, srcInfo.Digest)
        failed(err, ops) ==
            [err |-> err, info |-> NoBlobInfo, diffID |-> NoDigest,
             cachedDiffIDs |-> cached, ops |-> ops,
             putBlobInfo |-> NoBlobInfo, compressed |-> FALSE]
    IN IF has.err
       THEN failed(Wrap(Errorf("HasBlob failed"), "Error checking for blob at destination"),
                   <<"HasBlob">>)
       ELSE IF blobCanBeSkipped(has, needed)
       THEN IF sizesDisagree(srcInfo, has)
            THEN failed(Errorf("Error: blob is already present, but with another size"),
                        <<"HasBlob">>)
            ELSE IF reapply.err
            THEN failed(Wrap(Errorf("ReapplyBlob failed"), "Error reapplying blob at destination"),
                        <<"HasBlob", "ReapplyBlob">>)
            ELSE [err |-> Nil,
                  info |-> BlobInfo(reapply.digest, has.size, FALSE),
                  diffID |-> cached[srcInfo.Digest],
                  cachedDiffIDs |-> cached,
                  ops |-> <<"HasBlob", "ReapplyBlob">>,
                  putBlobInfo |-> NoBlobInfo, compressed |-> FALSE]
       ELSE IF get.err
       THEN failed(Wrap(Errorf("GetBlob failed"), "Error reading blob"), <<"HasBlob", "GetBlob">>)
       ELSE LET r == copyBlobFromStream(get.data,
                                        BlobInfo(srcInfo.Digest, Len(get.data), FALSE),
                                        needed, canCompressLayer(icv),
                                        shouldCompress, put, raced)
                ops == IF r.called THEN <<"HasBlob", "GetBlob", "PutBlob">>
                       ELSE <<"HasBlob", "GetBlob">>
                piped(result) ==
                    [result EXCEPT
                        !.putBlobInfo = IF r.called THEN r.inputInfo ELSE NoBlobInfo,
                        !.compressed = r.called /\ r.compress]
            IN IF r.err # Nil
               THEN piped(failed(r.err, ops))
               ELSE IF needed /\ diffErr
               THEN piped(failed(Wrap(Errorf("computeDiffID failed"),
                                      "Error computing layer DiffID"), ops))
               ELSE [err |-> Nil,
                     info |-> r.info,
                     diffID |-> IF needed THEN r.diffID ELSE NoDigest,
                     cachedDiffIDs |-> IF needed
                                       THEN [cached EXCEPT ![srcInfo.Digest] = r.diffID]
                                       ELSE cached,
                     ops |-> ops,
                     putBlobInfo |-> r.inputInfo,
                     compressed |-> r.compress]

\* src.LayerInfosForCopy(): nil, the same layers, or substituted layers
LayerInfosForCopy(layers) ==
    {[set |-> FALSE, infos |-> <<>>],
     [set |-> TRUE, infos |-> layers],
     [set |-> TRUE, infos |-> [i \in 1..Len(layers) |-> BlobInfo(DigestOf(<<>>), -1, FALSE)]]}

\* lines 550-561: the layers to copy
copyLayersStart ==
    /\ pc = "copyLayers"
    /\ \E updatedSrcInfos \in LayerInfosForCopy(ic.src.Layers) :
         LET srcInfos == ic.src.Layers
             updated == updatedSrcInfos.set /\ srcInfos # updatedSrcInfos.infos
         IN IF updated /\ ~ic.canModifyManifest
            THEN copyOneImageReturns(NilManifest, "",
                     Errorf("Internal error: copyLayers() needs to use an updated manifest but that was known to be forbidden"))
            ELSE copyOneImageContinues("copyLayer",
                     [ic EXCEPT
                        !.srcInfos = IF updated THEN updatedSrcInfos.infos ELSE srcInfos,
                        !.srcInfosUpdated = updated,
                        !.destInfos = <<>>,
                        !.diffIDs = <<>>,
                        !.layer = 1])
    /\ UNCHANGED <<options, rawSource, handles, c, history, blob>>

\* the results of one layer put in front of the earlier ones
prependLayerResult(icv, info, diffID) ==
    [icv EXCEPT !.destInfos = <<info>> \o @,
                !.diffIDs = <<diffID>> \o @,
                !.layer = @ + 1]

\* lines 577-584: the results of one layer are appended to destInfos and diffIDs
appendLayerResult(icv, info, diffID) ==
    [icv EXCEPT !.destInfos = Append(@, info),
                !.diffIDs = Append(@, diffID),
                !.layer = @ + 1]

\* one iteration of the layer loop, as the layer trace keeps it
LayerResult(src, info, diffID, ops) ==
    [src |-> src, info |-> info, diffID |-> diffID, ops |-> ops]

\* a foreign layer that is passed through whatever the copy needs
foreignLayerAlwaysSkipped(icv) == FALSE

\* lines 570-574: a foreign layer cannot be passed through when DiffIDs are needed
foreignLayerUnimplemented(icv) == icv.diffIDsAreNeeded

\* lines 562-585: one iteration of the layer loop
copyLayersStep ==
    /\ pc = "copyLayer"
    /\ ic.layer <= Len(ic.srcInfos)
    /\ LET srcLayer == ic.srcInfos[ic.layer]
       IN \E acceptsForeign \in BOOLEAN :
            IF acceptsForeign /\ srcLayer.URLs
            THEN IF foreignLayerUnimplemented(ic)
                 THEN /\ copyOneImageReturns(NilManifest, "",
                             Errorf("getting DiffID for foreign layers is unimplemented"))
                      /\ UNCHANGED <<c, imageOps>>
                 ELSE /\ ic' = appendLayerResult(ic, srcLayer, NoDigest)
                      /\ layerResults' = Append(layerResults,
                             LayerResult(srcLayer, srcLayer, NoDigest, <<>>))
                      /\ UNCHANGED <<pc, retErr, ml, c, imageOps>>
            ELSE \E d \in LayerDraws(srcLayer.Digest, ic.canModifyManifest) :
                   LET r == copyLayer(srcLayer, ic, c.cachedDiffIDs, d.has, d.reapply,
                                      d.get, d.pipe.put, d.pipe.raced,
                                      d.pipe.shouldCompress, d.diffErr)
                   IN /\ imageOps' = imageOps \cup Range(r.ops)
                      /\ IF r.err # Nil
                         THEN /\ copyOneImageReturns(NilManifest, "", r.err)
                              /\ UNCHANGED c
                         ELSE /\ ic' = appendLayerResult(ic, r.info, r.diffID)
                              /\ c' = [c EXCEPT !.cachedDiffIDs = r.cachedDiffIDs]
                              /\ layerResults' = Append(layerResults,
                                     LayerResult(srcLayer, r.info, r.diffID, r.ops))
                              /\ UNCHANGED <<pc, retErr, ml>>
    /\ UNCHANGED <<options, rawSource, handles, putManifestCalls, putSignaturesCalls,
                   commitCalls, blob>>

\* lines 586-593: the layer loop is over; record the results in manifestUpdates
copyLayersEnd ==
    /\ pc = "copyLayer"
    /\ ic.layer > Len(ic.srcInfos)
    /\ copyOneImageContinues("copyUpdatedConfigAndManifest",
           [ic EXCEPT
              !.manifestUpdates.InformationOnly.LayerInfos = ic.destInfos,
              !.manifestUpdates.InformationOnly.LayerDiffIDs =
                  IF ic.diffIDsAreNeeded THEN ic.diffIDs ELSE @,
              !.manifestUpdates.LayerInfos =
                  IF ic.srcInfosUpdated \/ layerDigestsDiffer(ic.srcInfos, ic.destInfos)
                  THEN [set |-> TRUE, infos |-> ic.destInfos]
                  ELSE @])
    /\ UNCHANGED <<options, rawSource, handles, c, history, blob>>

----------------------------------------------------------------------------
(* copyUpdatedConfigAndManifest, copyConfig and the manifest type retry loop *)

\* src.ConfigInfo(): schema1 manifests have no config blob
ConfigInfo(m) ==
    IF m.MIMEType = DockerV2Schema1SignedMediaType THEN NoBlobInfo
    ELSE BlobInfo(ConfigDigest, MaxLen, FALSE)

\* what src.ConfigBlob() and the PutBlob of the config may answer
ConfigDraws ==
    {[err |-> TRUE, data |-> <<>>, put |-> p] : p \in {q \in PutBlobBehaviours : q.fails}}
    \cup {[err |-> FALSE, data |-> data, put |-> p] :
            data \in SourceBlobs(ConfigDigest), p \in DestinationPuts(ConfigDigest)}

\* copyConfig (lines 656-673): its error and the backend calls made
copyConfig(m, cfg, put) ==
    LET srcInfo == ConfigInfo(m)
        r == copyBlobFromStream(cfg.data, srcInfo, FALSE, FALSE, FALSE, put, FALSE)
    IN IF srcInfo.Digest = NoDigest
       THEN [err |-> Nil, ops |-> <<>>]
       ELSE IF cfg.err
       THEN [err |-> Wrap(Errorf("ConfigBlob failed"), "Error reading config blob"),
             ops |-> <<"ConfigBlob">>]
       ELSE [err |-> IF r.err # Nil THEN r.err
                     ELSE IF r.info.Digest # srcInfo.Digest
                     THEN Errorf("Internal error: copying uncompressed config blob changed digest")
                     ELSE Nil,
             ops |-> IF r.called THEN <<"ConfigBlob", "PutBlob">> ELSE <<"ConfigBlob">>]

\* what dest.PutManifest may answer
PutManifestOutcomes ==
    {Nil, Errorf(ManifestTypeRejectedError), Errorf("PutManifest failed")}

\* one dest.PutManifest call, as the history keeps it
PutManifestCall(man, instanceDigest, err, src, canModifyManifest) ==
    [man |-> man, instanceDigest |-> instanceDigest, err |-> err, src |-> src,
     canModifyManifest |-> canModifyManifest]

\* the check of lines 614-618 left out
updatedManifestNeverForbidden(icv, updates) == FALSE

\* lines 614-618: an updated manifest is needed but may not be made
updatedManifestForbidden(icv, updates) ==
    ~UpdatesAreTrivial(updates) /\ ~icv.canModifyManifest

\* copyUpdatedConfigAndManifest (lines 611-653): the manifest and the error it
\* returns, the PutManifest calls it made (none or one), the backend calls made
copyUpdatedConfigAndManifest(icv, updates, updatedImageErr, cfg, put, putManifest) ==
    LET trivial == UpdatesAreTrivial(updates)
        man == IF trivial THEN icv.src ELSE UpdatedImage(icv.src, updates)
        cc == copyConfig(man, cfg, put)
        instanceDigest == IF icv.targetInstance THEN ManifestDigest(man) ELSE NoDigest
        failed(err, ops) == [err |-> err, man |-> NilManifest, calls |-> <<>>, ops |-> ops]
    IN IF updatedManifestForbidden(icv, updates)
       THEN failed(Errorf("Internal error: copy needs an updated manifest but that was known to be forbidden"), <<>>)
       ELSE IF ~trivial /\ ~icv.diffIDsAreNeeded
               /\ UpdatedImageNeedsLayerDiffIDs(icv.src, updates)
       THEN failed(Errorf("Can not convert image, preparing DiffIDs for this case is not supported"), <<>>)
       ELSE IF ~trivial /\ (updatedImageErr \/ ~ConversionImplemented(updates))
       THEN failed(Wrap(Errorf("UpdatedImage failed"), "Error creating an updated image manifest"), <<>>)
       ELSE IF cc.err # Nil
       THEN failed(cc.err, cc.ops)
       ELSE [err |-> Wrap(putManifest, "Error writing manifest"),
             man |-> IF putManifest = Nil THEN man ELSE NilManifest,
             calls |-> <<PutManifestCall(man, instanceDigest, putManifest, icv.src,
                                         icv.canModifyManifest)>>,
             ops |-> cc.ops \o <<"PutManifest">>]

\* what one copyUpdatedConfigAndManifest call draws from its environment
ManifestDraws ==
    {[updatedImageErr |-> u, cfg |-> cfg, putManifest |-> pm] :
        u \in BOOLEAN, cfg \in ConfigDraws, pm \in PutManifestOutcomes}

\* lines 445-460 without the canModifyManifest check of lines 458-460
afterPreferredFailureIgnoringSignatures(icv, err) ==
    IF Cause(err) # ManifestTypeRejectedError
       \/ Len(icv.otherManifestMIMETypeCandidates) = 0
    THEN "return"
    ELSE "other candidates"

\* lines 445-460: what follows a failed attempt with the preferred type: the
\* error is returned, or returned as one that no conversion can cure, or the
\* other candidates are tried
afterPreferredFailure(icv, err) ==
    IF Cause(err) # ManifestTypeRejectedError
       \/ Len(icv.otherManifestMIMETypeCandidates) = 0
    THEN "return"
    ELSE IF ~icv.canModifyManifest THEN "no conversion"
    ELSE "other candidates"

\* lines 443-460: the attempt with the preferred manifest type
PutPreferred ==
    /\ pc = "copyUpdatedConfigAndManifest"
    /\ \E d \in ManifestDraws :
         LET r == copyUpdatedConfigAndManifest(ic, ic.manifestUpdates, d.updatedImageErr,
                                               d.cfg, d.cfg.put, d.putManifest)
         IN /\ putManifestCalls' = putManifestCalls \o r.calls
            /\ imageOps' = imageOps \cup Range(r.ops)
            /\ IF r.err = Nil
               THEN copyOneImageContinues("createSignature",
                        [ic EXCEPT !.manifest = r.man,
                                   !.retManifestType = ic.preferredManifestMIMEType])
               ELSE IF afterPreferredFailure(ic, r.err) = "return"
               THEN copyOneImageReturns(NilManifest, "", r.err)
               ELSE IF afterPreferredFailure(ic, r.err) = "no conversion"
               THEN copyOneImageReturns(NilManifest, "",
                        Wrap(r.err, "Writing manifest failed (and converting it is not possible)"))
               ELSE copyOneImageContinues("otherCandidates",
                        [ic EXCEPT !.retManifestType = ic.preferredManifestMIMEType,
                                   !.errs = <<ic.preferredManifestMIMEType>>,
                                   !.candidate = 1])
    /\ UNCHANGED <<options, rawSource, handles, c, putSignaturesCalls, commitCalls, blob>>

\* lines 464-479: one iteration over the other manifest type candidates
PutCandidate ==
    /\ pc = "otherCandidates"
    /\ ic.candidate <= Len(ic.otherManifestMIMETypeCandidates)
    /\ \E d \in ManifestDraws :
         LET manifestMIMEType == ic.otherManifestMIMETypeCandidates[ic.candidate]
             updates == [ic.manifestUpdates EXCEPT !.ManifestMIMEType = manifestMIMEType]
             r == copyUpdatedConfigAndManifest(ic, updates, d.updatedImageErr,
                                               d.cfg, d.cfg.put, d.putManifest)
         IN /\ putManifestCalls' = putManifestCalls \o r.calls
            /\ imageOps' = imageOps \cup Range(r.ops)
            /\ IF r.err # Nil
               THEN copyOneImageContinues("otherCandidates",
                        [ic EXCEPT !.manifestUpdates = updates,
                                   !.errs = Append(@, manifestMIMEType),
                                   !.candidate = @ + 1])
               ELSE copyOneImageContinues("createSignature",
                        [ic EXCEPT !.manifestUpdates = updates,
                                   !.manifest = r.man,
                                   !.retManifestType = manifestMIMEType,
                                   !.errs = <<>>])
    /\ UNCHANGED <<options, rawSource, handles, c, putSignaturesCalls, commitCalls, blob>>

\* lines 480-482: every candidate failed
CandidatesExhausted ==
    /\ pc = "otherCandidates"
    /\ ic.candidate > Len(ic.otherManifestMIMETypeCandidates)
    /\ copyOneImageReturns(NilManifest, "",
           Errorf("Uploading manifest failed, attempted the following formats"))
    /\ UNCHANGED <<options, rawSource, handles, c, history, blob>>

\* one dest.PutSignatures call, as the history keeps it
PutSignaturesCall(sigs, instanceDigest, err) ==
    [sigs |-> sigs, instanceDigest |-> instanceDigest, err |-> err]

\* lines 485-498: sign the stored manifest, store the signatures, return
SignAndStore ==
    /\ pc = "createSignature"
    /\ \E signErr \in BOOLEAN, putErr \in BOOLEAN :
         LET sigs == IF options.SignBy # ""
                     THEN Append(ic.sigs, createSignature(ic.manifest, options.SignBy))
                     ELSE ic.sigs
             instanceDigest == IF ic.targetInstance THEN ManifestDigest(ic.src) ELSE NoDigest
         IN IF options.SignBy # "" /\ signErr
            THEN /\ copyOneImageReturns(NilManifest, "", Errorf("Error creating signature"))
                 /\ UNCHANGED <<putSignaturesCalls, imageOps>>
            ELSE /\ imageOps' = imageOps \cup {"PutSignatures"}
                 /\ putSignaturesCalls' = Append(putSignaturesCalls,
                        PutSignaturesCall(sigs, instanceDigest,
                            IF putErr THEN Errorf("PutSignatures failed") ELSE Nil))
                 /\ IF putErr
                    THEN copyOneImageReturns(NilManifest, "",
                             Wrap(Errorf("PutSignatures failed"), "Error writing signatures"))
                    ELSE copyOneImageReturns(ic.manifest, ic.retManifestType, Nil)
    /\ UNCHANGED <<options, rawSource, handles, c, putManifestCalls, commitCalls, blob>>

----------------------------------------------------------------------------
(* copyMultipleImages *)

\* lines 245-272: parse the list, read its signatures, dest.SupportsSignatures
MultipleImagesStart ==
    /\ pc = "copyMultipleImages"
    /\ \E parsed \in BOOLEAN, readErr \in BOOLEAN, s \in SignatureLists, supported \in BOOLEAN :
         LET sigs == IF options.RemoveSignatures THEN <<>> ELSE s
         IN IF ~parsed
            THEN /\ ImageReturns(Wrap(Errorf("invalid manifest list"), "Error parsing manifest list"))
                 /\ UNCHANGED ml
            ELSE IF ~options.RemoveSignatures /\ readErr
            THEN /\ ImageReturns(Wrap(Errorf("GetSignatures failed"), "Error reading signatures"))
                 /\ ml' = [ml EXCEPT !.listOps = {"GetSignatures"}]
            ELSE IF Len(sigs) # 0 /\ ~supported
            THEN /\ ImageReturns(Wrap(Errorf("signatures not supported"), "Can not copy signatures"))
                 /\ ml' = [ml EXCEPT !.listOps = {"GetSignatures", "SupportsSignatures"}]
            ELSE /\ ml' = [ml EXCEPT
                        !.sigs = sigs, !.i = 1, !.updates = <<>>,
                        !.listOps =
                            (IF options.RemoveSignatures THEN {} ELSE {"GetSignatures"})
                            \cup (IF Len(sigs) # 0 THEN {"SupportsSignatures"} ELSE {})]
                 /\ pc' = "instanceLoop"
                 /\ UNCHANGED retErr
    /\ UNCHANGED <<options, rawSource, handles, c, ic, history, layerResults, blob>>

\* lines 277-280: the next instance of the list is copied
NextInstance ==
    /\ pc = "instanceLoop"
    /\ ml.i <= Len(rawSource.images)
    /\ CallCopyOneImage(rawSource.images[ml.i], TRUE)
    /\ UNCHANGED <<options, rawSource, retErr, handles, c, ml, putManifestCalls,
                   putSignaturesCalls, commitCalls, layerResults, blob>>

\* list.UpdateInstances: every entry takes the digest, size and type of its update
UpdateInstances(list, updates) ==
    [list EXCEPT !.Instances = [i \in 1..Len(updates) |-> updates[i]]]

\* list.ToSchema2List / list.ToOCI1Index followed by list.Serialize()
SerializeList(list, mtype) == [list EXCEPT !.MIMEType = mtype, !.gen = 1]

\* the check of lines 332-334 left out
listUpdateNeverForbidden(listIsModified, canModifyManifest) == FALSE

\* lines 332-342: the list must be rewritten but may not be
listUpdateForbidden(listIsModified, canModifyManifest) ==
    listIsModified /\ ~canModifyManifest

\* the steps of lines 297-361 that can fail on their own
ListFailures ==
    {"none", "UpdateInstances", "convert", "Serialize", "PutManifest",
     "createSignature", "PutSignatures"}

\* lines 297-363: update, convert, store and sign the list
ListFinish ==
    /\ pc = "instanceLoop"
    /\ ml.i > Len(rawSource.images)
    /\ \E supported \in SupportedTypeLists, failure \in ListFailures :
         LET original == rawSource.manifest
             list == UpdateInstances(original, ml.updates)
             selectedType == determineListConversion(original.MIMEType, supported)
             convert == selectedType # list.MIMEType
             listIsModified == list.Instances # original.Instances \/ convert
             canModifyManifest == Len(ml.sigs) = 0
             manifestList == IF listIsModified THEN SerializeList(list, selectedType)
                             ELSE original
             sigs == IF options.SignBy # ""
                     THEN Append(ml.sigs, createSignature(manifestList, options.SignBy))
                     ELSE ml.sigs
             putManifest == IF failure = "PutManifest" THEN Errorf("PutManifest failed") ELSE Nil
             putSignatures == IF failure = "PutSignatures" THEN Errorf("PutSignatures failed")
                              ELSE Nil
             fails(err) == /\ ImageReturns(err)
                           /\ UNCHANGED <<putManifestCalls, putSignaturesCalls>>
         IN IF failure = "UpdateInstances"
            THEN fails(Wrap(Errorf("UpdateInstances failed"), "Error updating manifest list"))
            ELSE IF selectedType = ""
            THEN fails(Wrap(Errorf("no supported list type"),
                            "Error determining manifest list type to write to destination"))
            ELSE IF convert /\ failure = "convert"
            THEN fails(Wrap(Errorf("conversion failed"), "Error converting manifest list"))
            ELSE IF listUpdateForbidden(listIsModified, canModifyManifest)
            THEN fails(Errorf("Internal error: copyMultipleImages() needs to use an updated manifest but that was known to be forbidden"))
            ELSE IF listIsModified /\ failure = "Serialize"
            THEN fails(Wrap(Errorf("Serialize failed"), "Error encoding updated manifest list"))
            ELSE /\ putManifestCalls' = Append(putManifestCalls,
                        PutManifestCall(manifestList, NoDigest, putManifest, original,
                                        canModifyManifest))
                 /\ IF putManifest # Nil
                    THEN /\ ImageReturns(Wrap(putManifest, "Error writing manifest list"))
                         /\ UNCHANGED putSignaturesCalls
                    ELSE IF options.SignBy # "" /\ failure = "createSignature"
                    THEN /\ ImageReturns(Errorf("Error creating signature"))
                         /\ UNCHANGED putSignaturesCalls
                    ELSE /\ putSignaturesCalls' = Append(putSignaturesCalls,
                                PutSignaturesCall(sigs, NoDigest, putSignatures))
                         /\ IF putSignatures # Nil
                            THEN ImageReturns(Wrap(putSignatures, "Error writing signatures"))
                            ELSE pc' = "Commit" /\ UNCHANGED retErr
    /\ UNCHANGED <<options, rawSource, handles, c, ic, ml, commitCalls, imageOps,
                   layerResults, blob>>

----------------------------------------------------------------------------
(* The specification of Image() *)

Next ==
    \/ ImageStart
    \/ OpenSource
    \/ ReadManifestFails
    \/ DispatchSingle
    \/ DispatchCurrentRuntime
    \/ DispatchAll
    \/ PolicyCheck
    \/ InitImage
    \/ CollectSignatures
    \/ PrepareManifest
    \/ copyLayersStart
    \/ copyLayersStep
    \/ copyLayersEnd
    \/ PutPreferred
    \/ PutCandidate
    \/ CandidatesExhausted
    \/ SignAndStore
    \/ MultipleImagesStart
    \/ NextInstance
    \/ ListFinish
    \/ Commit
    \/ CloseSource
    \/ CloseDest

Spec == Init /\ [][Next]_vars

----------------------------------------------------------------------------
(* Image() on a manifest list whose instances have layers, with
   MultipleImages = CopyOnlyCurrentRuntimeImage *)

\* the images behind such a list: each has a layer the other has not
LayeredInstances ==
    <<ImageManifest(DockerV2Schema2MediaType, <<LayerA>>),
      ImageManifest(DockerV2Schema1SignedMediaType, <<LayerB>>)>>

LayeredLists ==
    {[multi |-> TRUE, manifest |-> ListManifest(t, LayeredInstances),
      images |-> LayeredInstances] : t \in ListTypes}

InitRuntime ==
    /\ pc = "Image"
    /\ options \in {o \in OptionsSet : o.MultipleImages = CopyOnlyCurrentRuntimeImage}
    /\ rawSource \in LayeredLists
    /\ NothingDone
    /\ blob = NoBlob

NextRuntime ==
    \/ ImageStart
    \/ OpenSource
    \/ ReadManifestFails
    \/ DispatchCurrentRuntime
    \/ PolicyCheck
    \/ InitImage
    \/ CollectSignatures
    \/ PrepareManifest
    \/ copyLayersStart
    \/ copyLayersStep
    \/ copyLayersEnd
    \/ PutPreferred
    \/ PutCandidate
    \/ CandidatesExhausted
    \/ SignAndStore
    \/ Commit
    \/ CloseSource
    \/ CloseDest

SpecRuntime == InitRuntime /\ [][NextRuntime]_vars

----------------------------------------------------------------------------
(* The runtime OS check on its own: checkImageDestinationForCurrentRuntimeOS *)
(* applied to every destination answer, system context and image OS         *)

\* ctx: nil, or a SystemContext with its OSChoice ("" when not set)
NilContext == [nil |-> TRUE, OSChoice |-> ""]

SystemContexts == {NilContext} \cup {[nil |-> FALSE, OSChoice |-> os] : os \in OSNames \cup {""}}

\* lines 512-515: runtime.GOOS unless the context chooses an OS
wantedOSFor(goos, ctx) == IF ~ctx.nil /\ ctx.OSChoice # "" THEN ctx.OSChoice ELSE goos

\* the arguments of one call, with runtime.GOOS, what dest.MustMatchRuntimeOS()
\* answers and what src.OCIConfig() returns
OSCalls ==
    [mustMatch : BOOLEAN, goos : OSNames, ctx : SystemContexts, imageOS : OSNames,
     configErr : BOOLEAN]

InitOS ==
    /\ pc = "checkImageDestinationForCurrentRuntimeOS"
    /\ options = CHOOSE o \in OptionsSet : TRUE
    /\ rawSource = CHOOSE r \in RawSources : TRUE
    /\ NothingDone
    /\ blob \in {[state |-> "os called", call |-> call] : call \in OSCalls}

\* lines 510-528: the check runs and returns its error
OSCheck ==
    /\ pc = "checkImageDestinationForCurrentRuntimeOS"
    /\ blob.state = "os called"
    /\ LET call == blob.call
           wantedOS == wantedOSFor(call.goos, call.ctx)
       IN blob' = [state |-> "os returned",
                   call |-> call,
                   wantedOS |-> wantedOS,
                   err |-> IF call.mustMatch /\ call.configErr
                           THEN Wrap(Errorf("OCIConfig failed"),
                                     "Error parsing image configuration")
                           ELSE IF checkImageDestinationForCurrentRuntimeOS(
                                       call.mustMatch, wantedOS, call.imageOS)
                           THEN Errorf("image operating system cannot be used")
                           ELSE Nil]
    /\ UNCHANGED mainVars

NextOS == OSCheck

SpecOS == InitOS /\ [][NextOS]_vars

----------------------------------------------------------------------------
(* The blob pipeline on its own: copyBlobFromStream applied to every stream, *)
(* declared digest, diffID recorder and PutBlob behaviour                     *)

\* a digest that does not validate
InvalidDigest == <<HashMod>>

\* the arguments of one copyBlobFromStream call
BlobCalls ==
    [data : Streams, digest : AllDigests \cup {InvalidDigest}, tee : BOOLEAN,
     canCompress : BOOLEAN]

InitBlob ==
    /\ pc = "copyBlobFromStream"
    /\ options = CHOOSE o \in OptionsSet : TRUE
    /\ rawSource = CHOOSE r \in RawSources : TRUE
    /\ NothingDone
    /\ blob \in {[state |-> "called", call |-> call] : call \in BlobCalls}

\* the draws of the pipeline with a destination that opts into compressed
\* layers or not, whether or not the caller lets it be asked
BlobDraws(canCompress) ==
    {d \in PipelineDraws :
        d.raced => (canCompress /\ d.shouldCompress /\ ~d.put.full /\ ~d.put.fails)}

\* lines 796-894: the pipeline runs and returns
BlobPipeline ==
    /\ pc = "copyBlobFromStream"
    /\ blob.state = "called"
    /\ \E d \in BlobDraws(blob.call.canCompress) :
         blob' = [state |-> "returned",
                  call |-> blob.call,
                  draw |-> d,
                  result |-> copyBlobFromStream(
                      blob.call.data,
                      BlobInfo(blob.call.digest, Len(blob.call.data), FALSE),
                      blob.call.tee, blob.call.canCompress,
                      d.shouldCompress, d.put, d.raced)]
    /\ UNCHANGED mainVars

NextBlob == BlobPipeline

SpecBlob == InitBlob /\ [][NextBlob]_vars

----------------------------------------------------------------------------
(* One layer copy on its own: copyLayer applied to every source size, DiffID *)
(* need, cache content and answer of the backends                            *)

\* the cache after an earlier layer copy of the same copier recorded the DiffID
CachedDiffIDsWith(digest) == [NoCachedDiffIDs EXCEPT ![digest] = OtherDigest(digest)]

\* the arguments and the copier state of one copyLayer call
LayerCalls ==
    [srcInfo : {BlobInfo(LayerA.Digest, n, FALSE) : n \in {-1, MaxLen, MaxLen + 1}},
     diffIDsAreNeeded : BOOLEAN,
     canModifyManifest : BOOLEAN,
     cached : {NoCachedDiffIDs, CachedDiffIDsWith(LayerA.Digest)}]

\* the pipeline draws of a layer copy whatever the destination says of
\* compression: dest.ShouldCompressLayers() is a setting of the destination,
\* also of one that is never asked (line 841 asks only if canCompress)
LayerPipelineDrawsOfAnyDestination(digest, canCompress) ==
    {d \in PipelineDraws :
        /\ d.put \in DestinationPuts(digest)
        /\ ~d.raced
        /\ (canCompress /\ d.shouldCompress) => (d.put.full \/ d.put.fails)}

\* every combination of answers of HasBlob, ReapplyBlob, GetBlob and the pipeline
AllLayerDraws(digest, canCompress) ==
    [has : HasBlobOutcomes, reapply : ReapplyBlobOutcomes(digest),
     get : GetBlobOutcomes(digest),
     pipe : LayerPipelineDrawsOfAnyDestination(digest, canCompress),
     diffErr : BOOLEAN]

InitLayer ==
    /\ pc = "copyLayerCall"
    /\ options = CHOOSE o \in OptionsSet : TRUE
    /\ rawSource = CHOOSE r \in RawSources : TRUE
    /\ NothingDone
    /\ blob \in {[state |-> "layer called", call |-> call] : call \in LayerCalls}

\* lines 684-731: one layer is copied
LayerCopy ==
    /\ pc = "copyLayerCall"
    /\ blob.state = "layer called"
    /\ \E d \in AllLayerDraws(blob.call.srcInfo.Digest, blob.call.canModifyManifest) :
         blob' = [state |-> "layer returned",
                  call |-> blob.call,
                  draw |-> d,
                  result |-> copyLayer(
                      blob.call.srcInfo,
                      [NoIC EXCEPT !.diffIDsAreNeeded = blob.call.diffIDsAreNeeded,
                                   !.canModifyManifest = blob.call.canModifyManifest],
                      blob.call.cached, d.has, d.reapply, d.get, d.pipe.put,
                      d.pipe.raced, d.pipe.shouldCompress, d.diffErr)]
    /\ UNCHANGED mainVars

NextLayer == LayerCopy

SpecLayer == InitLayer /\ [][NextLayer]_vars

----------------------------------------------------------------------------
(* The tasks of one layer copy: the main task (copyLayer, copyLayerFromStream, *)
(* copyBlobFromStream with PutBlob reading in it), the compressor task         *)
(* (compressGoroutine) and the DiffID task (diffIDComputationGoroutine),       *)
(* joined by two synchronous pipes.  Streams move one byte per Read.           *)

\* a channel without a buffer, make(chan diffIDResult): it holds no result
unbufferedChan == Len(<<>>)

\* line 744: make(chan diffIDResult, 1)
diffIDChanCapacity == 1

\* PutBlob reads its input to the end, or returns after n bytes; it may fail;
\* the digest it returns is the one of the info it was given (same) or another
PipePuts ==
    [full : {TRUE}, n : {0}, fails : {TRUE}, same : {TRUE}]
    \cup [full : {TRUE}, n : {0}, fails : {FALSE}, same : BOOLEAN]
    \cup [full : {FALSE}, n : 0..(MaxLen - 1), fails : {FALSE}, same : BOOLEAN]

\* the state of the tasks when copyLayerFromStream has set the pipeline up
PipeStart(data, digest, tee, shouldCompress, put) ==
    LET compress == shouldCompress /\ ~DetectCompression(data)
    IN [state |-> "pipe", data |-> data, digest |-> digest, tee |-> tee,
        compress |-> compress, put |-> put,
        pos |-> 0, readers |-> {}, validationFailed |-> FALSE,
        teeOut |-> <<>>, got |-> 0,
        mpc |-> "PutBlob", mheld |-> 0, merr |-> Nil,
        cpc |-> IF compress THEN "read" ELSE "none", cheld |-> 0, cerr |-> FALSE,
        dpc |-> IF tee THEN "read" ELSE "none", derr |-> FALSE, diffID |-> NoDigest,
        diffIDChan |-> 0,
        compReaderClosed |-> FALSE, compWriter |-> "open",
        diffWriter |-> "open", diffReaderClosed |-> FALSE,
        aliveAtBlobReturn |-> {}, aliveAtLayerReturn |-> {}]

InitPipe ==
    /\ pc = "copyLayerFromStream"
    /\ options = CHOOSE o \in OptionsSet : TRUE
    /\ rawSource = CHOOSE r \in RawSources : TRUE
    /\ NothingDone
    /\ \E data \in Streams, tee \in BOOLEAN, sc \in BOOLEAN, put \in PipePuts :
       \E digest \in {DigestOf(data), OtherDigest(DigestOf(data))} :
         /\ Len(data) >= PeekLen
         /\ blob = PipeStart(data, digest, tee, sc, put)

\* the side tasks that have not terminated
AliveTasks(b) ==
    (IF b.cpc \notin {"none", "done"} THEN {"compressor"} ELSE {})
    \cup (IF b.dpc \notin {"none", "done"} THEN {"diffID"} ELSE {})

\* the tasks that read the digesting reader with nothing ordering their reads:
\* the compressor, and the main task when it reads while the compressor has
\* not ended
UnorderedReaders(b, r) ==
    b.readers \cup (IF r = "compressor" \/ b.cpc \notin {"none", "done"} THEN {r} ELSE {})

\* digestingReader.Read (lines 53-71) by task r: the next byte, or end-of-input
\* with the digest validated.  Two tasks reading the same reader with nothing
\* ordering them is a data race on the hash state: the validation may then
\* come out either way.
ChainReads(b, r) ==
    IF b.pos < Len(b.data)
    THEN {[kind |-> "byte", byte |-> b.data[b.pos + 1],
           b |-> [b EXCEPT !.pos = @ + 1, !.readers = UnorderedReaders(b, r)]]}
    ELSE LET raced == UnorderedReaders(b, r) = {"main", "compressor"}
             verdicts == IF raced THEN BOOLEAN ELSE {DigestOf(b.data) = b.digest}
         IN {[kind |-> IF ok THEN "EOF" ELSE "error", byte |-> 0,
              b |-> [b EXCEPT !.readers = UnorderedReaders(b, r),
                              !.validationFailed = @ \/ ~ok]] : ok \in verdicts}

\* PutBlob wants more input
PutWantsMore(b) == b.mpc = "PutBlob" /\ (b.put.full \/ b.got < b.put.n)

\* PutBlob has returned: line 870 and what follows it
AfterPut(b) ==
    IF b.put.fails
    THEN [b EXCEPT !.merr = Wrap(Errorf("PutBlob failed"), "Error writing blob"),
                   !.mpc = "return"]
    ELSE [b EXCEPT !.mpc = IF b.tee THEN "drain" ELSE "checks"]

\* PutBlob failed reading its input
PutReadError(b) ==
    [b EXCEPT !.merr = Wrap(Errorf("Digest did not match"), "Error writing blob"),
              !.mpc = "return"]

\* line 870, no compressor: PutBlob reads the digesting reader (through the tee)
MainPutRead ==
    /\ blob.state = "pipe" /\ ~blob.compress /\ PutWantsMore(blob)
    /\ \E rd \in ChainReads(blob, "main") :
         blob' = IF rd.kind = "byte"
                 THEN IF blob.tee
                      THEN [rd.b EXCEPT !.mheld = rd.byte, !.mpc = "PutTee"]
                      ELSE [rd.b EXCEPT !.got = @ + 1]
                 ELSE IF rd.kind = "EOF" THEN AfterPut(rd.b)
                 ELSE PutReadError(rd.b)
    /\ UNCHANGED mainVars

\* io.TeeReader inside PutBlob's Read: the byte goes to the DiffID task
MainPutTee ==
    /\ blob.state = "pipe" /\ blob.mpc = "PutTee"
    /\ \/ /\ blob.dpc = "read"
          /\ blob' = [blob EXCEPT !.teeOut = Append(@, blob.mheld), !.got = @ + 1,
                                   !.mpc = "PutBlob"]
       \/ /\ blob.diffReaderClosed
          /\ blob' = PutReadError(blob)
    /\ UNCHANGED mainVars

\* line 870, with a compressor: PutBlob meets the end of the compressor's pipe
MainPutEnd ==
    /\ blob.state = "pipe" /\ blob.compress /\ PutWantsMore(blob)
    /\ blob.compWriter # "open"
    /\ blob' = IF blob.compWriter = "eof" THEN AfterPut(blob) ELSE PutReadError(blob)
    /\ UNCHANGED mainVars

\* PutBlob returns before the end of its input
MainPutEarly ==
    /\ blob.state = "pipe" /\ blob.mpc = "PutBlob"
    /\ ~blob.put.full /\ blob.got = blob.put.n
    /\ blob' = AfterPut(blob)
    /\ UNCHANGED mainVars

\* lines 879-885: the rest of the original stream is read for the DiffID task
MainDrain ==
    /\ blob.state = "pipe" /\ blob.mpc = "drain"
    /\ \E rd \in ChainReads(blob, "main") :
         blob' = IF rd.kind = "byte" THEN [rd.b EXCEPT !.mheld = rd.byte, !.mpc = "drainTee"]
                 ELSE IF rd.kind = "EOF" THEN [rd.b EXCEPT !.mpc = "checks"]
                 ELSE [rd.b EXCEPT !.merr = Wrap(Errorf("Digest did not match"),
                                                 "Error reading input blob"),
                                   !.mpc = "return"]
    /\ UNCHANGED mainVars

MainDrainTee ==
    /\ blob.state = "pipe" /\ blob.mpc = "drainTee"
    /\ \/ /\ blob.dpc = "read"
          /\ blob' = [blob EXCEPT !.teeOut = Append(@, blob.mheld), !.mpc = "drain"]
       \/ /\ blob.diffReaderClosed
          /\ blob' = [blob EXCEPT !.merr = Wrap(Errorf("io: read/write on closed pipe"),
                                                "Error reading input blob"),
                                  !.mpc = "return"]
    /\ UNCHANGED mainVars

\* a destination whose digest is never compared
uploadedDigestNeverDiffers(b) == FALSE

\* line 890: inputInfo carries a digest (no compression on the fly) and PutBlob
\* returned another one
uploadedDigestDiffers(b) == ~b.compress /\ ~b.put.same

\* lines 887-893: the final checks
MainChecks ==
    /\ blob.state = "pipe" /\ blob.mpc = "checks"
    /\ blob' = IF blob.validationFailed
               THEN [blob EXCEPT !.merr = Errorf("Internal error writing blob, digest verification failed but was ignored"),
                                 !.mpc = "return"]
               ELSE IF uploadedDigestDiffers(blob)
               THEN [blob EXCEPT !.merr = Errorf("Internal error writing blob, blob saved with another digest"),
                                 !.mpc = "return"]
               ELSE [blob EXCEPT !.mpc = "return"]
    /\ UNCHANGED mainVars

\* a return that leaves the compressor's pipe open
pipeReaderLeftOpen(b) == FALSE

\* line 847: defer pipeReader.Close()
deferredPipeReaderClose(b) == b.compress

\* copyBlobFromStream returns: its deferred calls run
MainBlobReturn ==
    /\ blob.state = "pipe" /\ blob.mpc = "return"
    /\ blob' = [blob EXCEPT !.compReaderClosed = deferredPipeReaderClose(blob),
                            !.aliveAtBlobReturn = AliveTasks(blob),
                            !.mpc = "blobReturned"]
    /\ UNCHANGED mainVars

\* a return that leaves the DiffID task's pipe open
pipeWriterLeftOpen(b) == b.diffWriter

\* lines 746-748: the deferred pipeWriter.CloseWithError(err), made only when a
\* DiffID is needed; a nil err is a plain Close
deferredPipeWriterClose(b) ==
    IF ~b.tee THEN b.diffWriter ELSE IF b.merr = Nil THEN "eof" ELSE "err"

\* lines 745-747 and 761-765: copyLayerFromStream returns; its deferred
\* pipeWriter.CloseWithError(err) ends the DiffID task's input
MainLayerFromStreamReturn ==
    /\ blob.state = "pipe" /\ blob.mpc = "blobReturned"
    /\ LET closed == [blob EXCEPT !.diffWriter = deferredPipeWriterClose(blob)]
       IN blob' = IF blob.merr = Nil /\ blob.tee
                  THEN [closed EXCEPT !.mpc = "waitDiffID"]
                  ELSE [closed EXCEPT !.mpc = "layerReturned",
                                      !.aliveAtLayerReturn = AliveTasks(blob)]
    /\ UNCHANGED mainVars

\* lines 721-729: copyLayer receives the DiffID task's result and returns
MainReceiveDiffID ==
    /\ blob.state = "pipe" /\ blob.mpc = "waitDiffID"
    /\ blob.diffIDChan > 0
    /\ blob' = [blob EXCEPT
                  !.diffIDChan = @ - 1,
                  !.merr = IF blob.derr
                           THEN Wrap(Errorf("computeDiffID failed"), "Error computing layer DiffID")
                           ELSE @,
                  !.aliveAtLayerReturn = AliveTasks(blob),
                  !.mpc = "layerReturned"]
    /\ UNCHANGED mainVars

\* compressGoroutine, line 906: io.Copy reads the original stream
CompressorRead ==
    /\ blob.state = "pipe" /\ blob.cpc = "read"
    /\ \E rd \in ChainReads(blob, "compressor") :
         blob' = IF rd.kind = "byte"
                 THEN [rd.b EXCEPT !.cheld = rd.byte,
                                   !.cpc = IF blob.tee THEN "tee" ELSE "write"]
                 ELSE [rd.b EXCEPT !.cerr = (rd.kind = "error"), !.cpc = "close"]
    /\ UNCHANGED mainVars

\* io.TeeReader inside the compressor's Read
CompressorTee ==
    /\ blob.state = "pipe" /\ blob.cpc = "tee"
    /\ \/ /\ blob.dpc = "read" /\ blob.diffWriter = "open"
          /\ blob' = [blob EXCEPT !.teeOut = Append(@, blob.cheld), !.cpc = "write"]
       \/ /\ blob.diffReaderClosed \/ blob.diffWriter # "open"
          /\ blob' = [blob EXCEPT !.cerr = TRUE, !.cpc = "close"]
    /\ UNCHANGED mainVars

\* io.Copy writes to the pipe: PutBlob takes the byte, or the pipe is closed
CompressorWrite ==
    /\ blob.state = "pipe" /\ blob.cpc = "write"
    /\ \/ /\ PutWantsMore(blob)
          /\ blob' = [blob EXCEPT !.got = @ + 1, !.cpc = "read"]
       \/ /\ blob.compReaderClosed
          /\ blob' = [blob EXCEPT !.cerr = TRUE, !.cpc = "close"]
    /\ UNCHANGED mainVars

\* lines 899-904: zipper.Close() writes what is left to the pipe, then
\* dest.CloseWithError(err), and the task ends
CompressorClose ==
    /\ blob.state = "pipe" /\ blob.cpc = "close"
    /\ PutWantsMore(blob) \/ blob.compReaderClosed
    /\ blob' = [blob EXCEPT !.compWriter = IF blob.cerr THEN "err" ELSE "eof",
                            !.cpc = "done"]
    /\ UNCHANGED mainVars

\* computeDiffID fails on its input (a stream that does not decompress)
DiffIDFails ==
    /\ blob.state = "pipe" /\ blob.dpc = "read"
    /\ DetectCompression(blob.data)
    /\ blob' = [blob EXCEPT !.derr = TRUE, !.diffReaderClosed = TRUE, !.dpc = "send"]
    /\ UNCHANGED mainVars

\* lines 768-777: the DiffID task meets the end of its pipe and closes it;
\* its result is ready to be sent
DiffIDEnds ==
    /\ blob.state = "pipe" /\ blob.dpc = "read"
    /\ blob.diffWriter # "open"
    /\ blob' = [blob EXCEPT
                  !.derr = (blob.diffWriter = "err"),
                  !.diffID = IF blob.diffWriter = "err" THEN NoDigest
                             ELSE computeDiffID(blob.teeOut, DetectCompression(blob.data)),
                  !.diffReaderClosed = TRUE,
                  !.dpc = "send"]
    /\ UNCHANGED mainVars

\* line 773: the deferred dest <- result; the send goes through when the
\* channel has room or the main task is waiting to receive
DiffIDSend ==
    /\ blob.state = "pipe" /\ blob.dpc = "send"
    /\ blob.diffIDChan < diffIDChanCapacity \/ blob.mpc = "waitDiffID"
    /\ blob' = [blob EXCEPT !.diffIDChan = @ + 1, !.dpc = "done"]
    /\ UNCHANGED mainVars

NextPipe ==
    \/ MainPutRead
    \/ MainPutTee
    \/ MainPutEnd
    \/ MainPutEarly
    \/ MainDrain
    \/ MainDrainTee
    \/ MainChecks
    \/ MainBlobReturn
    \/ MainLayerFromStreamReturn
    \/ MainReceiveDiffID
    \/ CompressorRead
    \/ CompressorTee
    \/ CompressorWrite
    \/ CompressorClose
    \/ DiffIDFails
    \/ DiffIDEnds
    \/ DiffIDSend

SpecPipe == InitPipe /\ [][NextPipe]_vars

\* the steps of each task
MainTask ==
    \/ MainPutRead
    \/ MainPutTee
    \/ MainPutEnd
    \/ MainPutEarly
    \/ MainDrain
    \/ MainDrainTee
    \/ MainChecks
    \/ MainBlobReturn
    \/ MainLayerFromStreamReturn
    \/ MainReceiveDiffID

CompressorTask == CompressorRead \/ CompressorTee \/ CompressorWrite \/ CompressorClose

DiffIDTask == DiffIDFails \/ DiffIDEnds \/ DiffIDSend

\* the tasks of a layer copy under the Go scheduler: a task that can take a
\* step is not held back for ever; PutBlob and the reads of the source return
SpecPipeFair ==
    /\ SpecPipe
    /\ WF_vars(MainTask)
    /\ WF_vars(CompressorTask)
    /\ WF_vars(DiffIDTask)

----------------------------------------------------------------------------
(* Properties *)

\* Image() has returned from the copy and runs, or has run, its deferred closes
Terminal == pc \in {"deferSource", "deferDest", "done"}

\* the positions of copyOneImage after the policy check
AfterPolicy ==
    {"FromUnparsedImage", "Signatures", "updateEmbeddedDockerReference", "copyLayers",
     "copyLayer", "copyUpdatedConfigAndManifest", "otherCandidates", "createSignature"}

LastOf(calls) == calls[Len(calls)]

\* the copy that precedes Commit stored a manifest and the signatures
CopySucceeded ==
    /\ putManifestCalls # <<>>
    /\ LastOf(putManifestCalls).err = Nil
    /\ putSignaturesCalls # <<>>
    /\ \A i \in 1..Len(putSignaturesCalls) : putSignaturesCalls[i].err = Nil

\* C1: dest.Commit() is called at most once and only after the single-image
\* copy or the whole list copy (every PutManifest, every PutSignatures) has
\* succeeded, and Image() returns success only if Commit() succeeded.
C1_CommitOnlyAfterCopy ==
    /\ Len(commitCalls) <= 1
    /\ commitCalls # <<>> => CopySucceeded
    /\ (pc = "done" /\ retErr = Nil) => commitCalls = <<Nil>>

\* the policy check of the image being copied has returned a negative answer
PolicyRejected == "IsRunningImageAllowed" \in imageOps /\ "policy allows" \notin imageOps

\* C2: whenever the policy check answers with a false boolean or a non-nil
\* error, copyOneImage returns a non-nil error, nothing of the image is
\* written and Commit() is not called.
C2_RejectionFailsTheCopy ==
    PolicyRejected =>
        /\ Terminal
        /\ retErr # Nil
        /\ commitCalls = <<>>
        /\ imageOps = {"IsRunningImageAllowed"}

\* C3: nothing but the MIME type inspection and the policy check itself
\* happens for an image before its policy check has returned a positive
\* answer: no signature read, no parsing, no blob, manifest or signature call.
C3_PolicyBeforeAnythingElse ==
    /\ imageOps \ {"IsRunningImageAllowed", "policy allows"} # {}
          => "policy allows" \in imageOps
    /\ pc \in AfterPolicy => "policy allows" \in imageOps

C3_Witness ==
    {"Signatures", "FromUnparsedImage", "HasBlob", "GetBlob", "PutBlob", "ReapplyBlob",
     "PutManifest", "PutSignatures"} \subseteq imageOps

BlobReturned == blob.state = "returned"

BlobMismatch == DigestOf(blob.call.data) # blob.call.digest

\* a compressor task is still reading when PutBlob has returned
BlobCompressorRunning == blob.result.compress /\ ~blob.draw.put.full

\* PutBlob does not fail on its own and returns the digest it was given
BlobWellBehavedPut ==
    /\ ~blob.draw.put.fails
    /\ blob.result.inputInfo.Digest # NoDigest
          => blob.draw.put.digest = blob.result.inputInfo.Digest

\* C4 as stated: a stream that does not hash to the declared digest fails the
\* copy whatever PutBlob does, and a stream that does, with a well-behaved
\* destination, is copied successfully with the bytes unaltered.
C4_MismatchAlwaysFails ==
    BlobReturned =>
        /\ BlobMismatch => blob.result.err # Nil
        /\ (~BlobMismatch /\ BlobWellBehavedPut) =>
              /\ blob.result.err = Nil
              /\ blob.draw.put.full => blob.result.delivered = blob.call.data

\* C4, amended: a stream that does not hash to the declared digest fails the
\* copy whenever the stream is read to its end before the final checks (PutBlob
\* reads all of it, or a diffID recorder is installed, or the stream is empty)
\* and no compressor task is left running; a stream that does hash to it, with
\* a well-behaved destination and no compressor task left running, is copied
\* successfully, and what PutBlob read is the source bytes or, when compressing
\* on the fly, their compression.
C4_MismatchFailsWhenReadToEnd ==
    BlobReturned =>
        /\ (/\ BlobMismatch
            /\ ~BlobCompressorRunning
            /\ blob.draw.put.full \/ blob.call.tee \/ Len(blob.call.data) < PeekLen)
              => blob.result.err # Nil
        /\ (~BlobMismatch /\ BlobWellBehavedPut /\ ~BlobCompressorRunning) =>
              /\ blob.result.err = Nil
              /\ blob.draw.put.full =>
                    /\ blob.result.compress => Decompress(blob.result.delivered) = blob.call.data
                    /\ ~blob.result.compress => blob.result.delivered = blob.call.data

\* the validation flag alone stops the copy: PutBlob read everything and
\* swallowed the read error
C4_Witness ==
    /\ BlobReturned
    /\ BlobMismatch
    /\ blob.draw.put.full /\ blob.draw.put.swallow /\ ~blob.draw.put.fails
    /\ ~blob.call.tee
    /\ blob.result.validationFailed
    /\ blob.result.err # Nil

\* the errors that say that retained signatures forbid a rewrite
ImageConflictErrors ==
    {"Copying a schema1 image with an embedded Docker reference would invalidate existing signatures",
     "Internal error: copyLayers() needs to use an updated manifest but that was known to be forbidden",
     "Internal error: copy needs an updated manifest but that was known to be forbidden"}

ListConflictError ==
    "Internal error: copyMultipleImages() needs to use an updated manifest but that was known to be forbidden"

C6_SignedManifestUnchanged ==
    \A i \in 1..Len(putManifestCalls) :
        ~putManifestCalls[i].canModifyManifest
            => putManifestCalls[i].man = putManifestCalls[i].src

C6_Witness ==
    \E i, j \in 1..Len(putManifestCalls) :
        /\ ~putManifestCalls[i].canModifyManifest /\ putManifestCalls[i].err = Nil
        /\ ~isMultiImage(putManifestCalls[i].man)
        /\ ~putManifestCalls[j].canModifyManifest /\ putManifestCalls[j].err = Nil
        /\ isMultiImage(putManifestCalls[j].man)

\* the single-image copy stored a manifest, its source type is one the
\* destination supports, no signature is carried and the embedded reference
\* is left alone
C7_Case ==
    /\ pc = "createSignature"
    /\ ic.src.MIMEType \in Range(ic.supported)
    /\ ic.sigs = <<>>
    /\ ~ic.manifestUpdates.EmbeddedDockerReference

\* C7 as stated: in that case the manifest passed to PutManifest is the source
\* manifest, whatever the layers and the destination do.
C7_SupportedTypeRoundTrips == C7_Case => ic.manifest = ic.src

\* C7, amended: in that case the manifest stored is the source manifest
\* provided that no media type is forced, the source substitutes no layer
\* infos, every layer keeps its digest at the destination (no compression on
\* the fly or ReapplyBlob changes it) and the first PutManifest is accepted.
C7_RoundTripWhenLayersKeepDigests ==
    (/\ C7_Case
     /\ options.ForceManifestMIMEType \in {"", ic.src.MIMEType}
     /\ ~ic.srcInfosUpdated
     /\ \A i \in 1..Len(ic.srcInfos) : ic.destInfos[i].Digest = ic.srcInfos[i].Digest
     /\ ic.retManifestType = ic.preferredManifestMIMEType)
        => ic.manifest = ic.src

C7_Witness ==
    /\ C7_Case
    /\ Len(ic.srcInfos) = MaxLayers
    /\ "PutBlob" \in imageOps
    /\ \E i \in 1..Len(ic.srcInfos) : ic.destInfos[i] # ic.srcInfos[i]
    /\ ic.manifest = ic.src

\* C8: a PutManifest attempt that failed is followed by another attempt only
\* if the failure was a ManifestTypeRejectedError.
C8_OnlyRejectionRetried ==
    \A i \in 1..(Len(putManifestCalls) - 1) :
        putManifestCalls[i].err # Nil
            => Cause(putManifestCalls[i].err) = ManifestTypeRejectedError

\* C9: under retained signatures no other candidate type is ever attempted: a
\* failed PutManifest is the first and only one of its image, the last of the
\* execution, and Image() is returning an error with the cause of that failure.
C9_NoFallbackWhenSigned ==
    /\ ~(pc = "otherCandidates" /\ ~ic.canModifyManifest)
    /\ \A i \in 1..Len(putManifestCalls) :
          (~putManifestCalls[i].canModifyManifest /\ putManifestCalls[i].err # Nil) =>
              /\ i = Len(putManifestCalls)
              /\ i > 1 => putManifestCalls[i - 1].err = Nil
              /\ Terminal
              /\ retErr # Nil
              /\ Cause(retErr) = Cause(putManifestCalls[i].err)

C9_Witness ==
    /\ pc = "deferSource"
    /\ retErr # Nil
    /\ Head(retErr) = "Writing manifest failed (and converting it is not possible)"
    /\ Cause(retErr) = ManifestTypeRejectedError
    /\ Len(putManifestCalls) = 1
    /\ ~putManifestCalls[1].canModifyManifest

\* C10: the destination layer list grows in step with the layers visited, its
\* i-th entry is the result of the i-th source layer used for the copy, and
\* after copyLayers it is as long as that source layer list.
C10_LayerOrderKept ==
    /\ Len(ic.destInfos) = Len(layerResults)
    /\ Len(ic.diffIDs) = Len(layerResults)
    /\ pc = "copyLayer" => ic.layer = Len(layerResults) + 1
    /\ \A i \in 1..Len(layerResults) :
          /\ layerResults[i].src = ic.srcInfos[i]
          /\ ic.destInfos[i] = layerResults[i].info
          /\ ic.diffIDs[i] = layerResults[i].diffID
    /\ pc \in {"copyUpdatedConfigAndManifest", "otherCandidates", "createSignature"} =>
          /\ Len(ic.destInfos) = Len(ic.srcInfos)
          /\ ic.manifestUpdates.InformationOnly.LayerInfos = ic.destInfos
          /\ ~ic.srcInfosUpdated => ic.srcInfos = ic.src.Layers

C10_Witness ==
    /\ pc = "copyUpdatedConfigAndManifest"
    /\ ic.srcInfosUpdated
    /\ Len(ic.destInfos) = MaxLayers
    /\ ic.destInfos[1] # ic.destInfos[MaxLayers]

LayerReturned == blob.state = "layer returned"

\* HasBlob reported the blob present with a size the source contradicts
LayerSizeConflict ==
    /\ ~blob.draw.has.err
    /\ blob.draw.has.present
    /\ blob.call.srcInfo.Size # -1
    /\ blob.call.srcInfo.Size # blob.draw.has.size

\* the layer copy has to compute a DiffID
LayerNeedsDiffID ==
    blob.call.diffIDsAreNeeded /\ blob.call.cached[blob.call.srcInfo.Digest] = NoDigest

\* C11 as stated: a layer that HasBlob reports present with a size other than
\* the one the source asserts fails to copy, whether or not a DiffID has to be
\* computed for it.
C11_SizeConflictAlwaysFails ==
    (LayerReturned /\ LayerSizeConflict) => blob.result.err # Nil

\* C11, amended: a layer that HasBlob reports present with a size other than
\* the one the source asserts fails to copy, with no call after HasBlob, when
\* no DiffID has to be computed for it; when one has to be computed the sizes
\* are not compared and the blob is read from the source again.
C11_SizeConflictFailsOnSkipPath ==
    (LayerReturned /\ LayerSizeConflict) =>
        /\ ~LayerNeedsDiffID =>
              /\ blob.result.err # Nil
              /\ blob.result.ops = <<"HasBlob">>
        /\ LayerNeedsDiffID =>
              /\ Len(blob.result.ops) >= 2
              /\ blob.result.ops[2] = "GetBlob"

C11_Witness ==
    /\ LayerReturned
    /\ LayerSizeConflict
    /\ ~LayerNeedsDiffID
    /\ blob.call.diffIDsAreNeeded
    /\ blob.result.err = Errorf("Error: blob is already present, but with another size")

\* a layer copy of a second Image() call: the copier is new, and the
\* destination reports the blob of the first copy, with the size it has
LayerOfSecondCopy ==
    /\ LayerReturned
    /\ blob.call.cached = NoCachedDiffIDs
    /\ ~blob.draw.has.err
    /\ blob.draw.has.present
    /\ blob.call.srcInfo.Size \in {-1, blob.draw.has.size}

LayerSkipped == blob.result.ops = <<"HasBlob", "ReapplyBlob">>

UnimplementedError == Errorf("getting DiffID for foreign layers is unimplemented")

BlobOps == {"HasBlob", "GetBlob", "PutBlob", "ReapplyBlob"}

\* the blob calls of the layers visited so far
LayerOps == UNION {Range(layerResults[i].ops) : i \in 1..Len(layerResults)}

\* a foreign layer is never passed through while DiffIDs are needed; in the
\* layer loop every blob call made for the image belongs to an earlier layer;
\* and the unimplemented error ends the copy with no config blob, manifest or
\* signature of the image written and no Commit
C13_AfterUnimplemented ==
    /\ \A i \in 1..Len(layerResults) :
          layerResults[i].ops = <<>> => ~ic.diffIDsAreNeeded
    /\ pc = "copyLayer" => imageOps \cap BlobOps = LayerOps
    /\ retErr = UnimplementedError =>
          /\ Terminal
          /\ imageOps \cap {"ConfigBlob", "PutManifest", "PutSignatures"} = {}
          /\ commitCalls = <<>>

\* the step that raises the unimplemented error is taken in the layer loop at
\* a foreign layer, with DiffIDs needed, and makes no backend call
C13_UnimplementedStep ==
    (retErr = Nil /\ retErr' = UnimplementedError) =>
        /\ pc = "copyLayer"
        /\ ic.diffIDsAreNeeded
        /\ ic.layer = Len(layerResults) + 1
        /\ ic.srcInfos[ic.layer].URLs
        /\ UNCHANGED <<history, c>>

\* C13: when a foreign layer is reached while DiffIDs are needed, the copy
\* fails with the unimplemented error: no HasBlob, GetBlob or PutBlob is issued
\* for that layer or a later one, no config blob, manifest or signature is
\* written, Commit is not called; only earlier layers were written.
C13_ForeignLayerUnimplemented ==
    [](C13_AfterUnimplemented) /\ [][C13_UnimplementedStep]_vars

C13_Witness ==
    /\ Terminal
    /\ retErr = UnimplementedError
    /\ "PutBlob" \in imageOps

PipeLayerReturned == blob.state = "pipe" /\ blob.mpc = "layerReturned"

\* the main task and the compressor read the original stream side by side
PipeRaced == blob.readers = {"main", "compressor"}

\* C14: whenever a layer copy with a DiffID recorder succeeds, the DiffID task
\* was given exactly the source bytes, complete and in order, and these hash
\* to the declared digest, under every interleaving of the tasks.
C14_DiffIDSeesTheSourceBytes ==
    (PipeLayerReturned /\ blob.tee /\ blob.merr = Nil) =>
        /\ blob.teeOut = blob.data
        /\ DigestOf(blob.data) = blob.digest
        /\ blob.diffID = computeDiffID(blob.data, DetectCompression(blob.data))

PipeBlobReturned ==
    blob.state = "pipe" /\ blob.mpc \in {"blobReturned", "waitDiffID", "layerReturned"}

\* C15 as stated: when copyBlobFromStream returns the compressor task has
\* terminated, and when the layer copy returns the compressor task and the
\* DiffID task have terminated, on success and on every failure.
C15_TasksEndedAtReturn ==
    /\ PipeBlobReturned => "compressor" \notin blob.aliveAtBlobReturn
    /\ PipeLayerReturned => blob.aliveAtLayerReturn = {}

\* the pipe end that wakes a side task up has been closed
PipeClosedFor(task) ==
    IF task = "compressor" THEN blob.compReaderClosed
    ELSE blob.diffWriter # "open" \/ blob.diffReaderClosed

\* C15, amended: at every return of the blob pipeline and of the layer copy,
\* every side task of that blob has terminated or the returning task has closed
\* its pipe, so that the side task can always go on until it terminates; a
\* successful layer copy with a DiffID recorder returns only after the DiffID
\* task has delivered its result, and a successful copy in which PutBlob read
\* its whole input returns only after the compressor task has terminated.
C15_TasksEndedOrReleasedAtReturn ==
    /\ PipeBlobReturned =>
          /\ "compressor" \in AliveTasks(blob) => PipeClosedFor("compressor")
          /\ (blob.merr = Nil /\ blob.put.full) => "compressor" \notin blob.aliveAtBlobReturn
    /\ PipeLayerReturned =>
          /\ \A task \in AliveTasks(blob) : PipeClosedFor(task)
          /\ AliveTasks(blob) # {} => ENABLED NextPipe
          /\ (blob.merr = Nil /\ blob.tee) => "diffID" \notin blob.aliveAtLayerReturn

\* the compressor task outlived a successful copy and terminated after it
C15_Witness ==
    /\ PipeLayerReturned
    /\ blob.merr = Nil
    /\ blob.aliveAtLayerReturn = {"compressor"}
    /\ AliveTasks(blob) = {}

HandleNames == {"src", "dest"}

HandleClosed(h) == handles[h] \in {"closed", "close failed"}

\* when Image() has returned no handle is left open; the source handle is
\* open only while the destination handle is, and is closed first
C16_HandlesAtReturn ==
    /\ pc = "done" => \A h \in HandleNames : handles[h] = "none" \/ HandleClosed(h)
    /\ handles.src = "open" => handles.dest = "open"
    /\ HandleClosed("dest") => handles.src # "open"
    /\ (pc = "done" /\ commitCalls # <<>>) => \A h \in HandleNames : HandleClosed(h)

\* a handle is opened once, from never opened, and closed once, from open
C16_HandleStep ==
    \A h \in HandleNames :
        handles'[h] # handles[h] =>
            \/ handles[h] = "none" /\ handles'[h] = "open"
            \/ handles[h] = "open" /\ HandleClosed(h)'

\* C16: on every exit path of Image() every handle that was opened is closed
\* exactly once before Image() returns, no handle is closed that was never
\* opened, and the source handle is closed before the destination handle.
C16_HandlesReleased == [](C16_HandlesAtReturn) /\ [][C16_HandleStep]_vars

C16_Witness ==
    /\ pc = "done"
    /\ handles.src = "none"
    /\ HandleClosed("dest")
    /\ retErr # Nil

\* a Close() of the source or of the destination handle failed
TeardownFailed == \E h \in HandleNames : handles[h] = "close failed"

\* C17: whenever closing the source or the destination handle fails, Image()
\* returns a non-nil error that carries the teardown error, also when the copy
\* and Commit had succeeded.
C17_TeardownErrorSurfaces ==
    (pc = "done" /\ TeardownFailed) =>
        /\ retErr # Nil
        /\ handles.src = "close failed" => \E i \in 1..Len(retErr) : retErr[i] = " (src: error)"
        /\ handles.dest = "close failed" => \E i \in 1..Len(retErr) : retErr[i] = " (dest: error)"

\* the error of line 208
MultipleImagesUnsupported ==
    "Error copying multiple images: destination does not support multiple images"

\* Image() asked the destination whether it takes manifest lists (line 207)
AskedForLists == Len(ml.destTypes) = 1

\* the destination names media types and none of them is a list type
NamesNoListType(mtypes) ==
    /\ mtypes # <<>>
    /\ Range(mtypes) \cap {DockerV2ListMediaType, MediaTypeImageIndex} = {}

\* C18: with MultipleImages = CopyAllImages and a manifest list as the source,
\* Image() fails with the multi-image-unsupported error exactly when the
\* destination's supported media types are non-empty and hold no list type;
\* then there was no policy check, no blob transfer, no PutManifest, no
\* PutSignatures and no Commit.  An empty set of types accepts every type.
C18_UnsupportedDestinationFailsEarly ==
    /\ AskedForLists <=>
          /\ options.MultipleImages = CopyAllImages
          /\ isMultiImage(rawSource.manifest)
          /\ pc \notin {"Image", "NewImageSource", "Manifest"}
          /\ handles.src # "none"
          /\ ~(pc \in {"deferSource", "deferDest", "done"} /\ retErr # Nil
               /\ Cause(retErr) = "GetManifest failed")
    /\ AskedForLists =>
          /\ (retErr # Nil /\ Cause(retErr) = MultipleImagesUnsupported)
                <=> NamesNoListType(ml.destTypes[1])
          /\ NamesNoListType(ml.destTypes[1]) =>
                /\ Terminal
                /\ imageOps = {}
                /\ putManifestCalls = <<>>
                /\ putSignaturesCalls = <<>>
                /\ commitCalls = <<>>

C18_Witness ==
    /\ pc = "done"
    /\ AskedForLists
    /\ NamesNoListType(ml.destTypes[1])
    /\ Cause(retErr) = MultipleImagesUnsupported

\* the other side of C18: a destination that names no type at all is copied to
C18_WitnessEmpty ==
    /\ pc = "done"
    /\ AskedForLists
    /\ ml.destTypes[1] = <<>>
    /\ retErr = Nil

\* Image() chose an instance of the list (line 196)
InstanceChosen == ml.instanceDigest # NoDigest

\* the images of the list other than the chosen one
OtherInstances == {m \in Range(rawSource.images) : ManifestDigest(m) # ml.instanceDigest}

\* the digests of the layers an image names
LayerDigestsOf(m) == {m.Layers[i].Digest : i \in 1..Len(m.Layers)}

StoredInstanceCall(call) == call.err = Nil /\ call.instanceDigest # NoDigest

StoredInstances == SelectSeq(putManifestCalls, StoredInstanceCall)

\* copyMultipleImages stored the list and its signatures (lines 345-361)
ListCopySucceeded ==
    /\ isMultiImage(rawSource.manifest)
    /\ options.MultipleImages = CopyAllImages
    /\ pc \in {"Commit", "deferSource", "deferDest", "done"}
    /\ putManifestCalls # <<>>
    /\ LastOf(putManifestCalls).instanceDigest = NoDigest
    /\ LastOf(putManifestCalls).err = Nil
    /\ putSignaturesCalls # <<>>
    /\ LastOf(putSignaturesCalls).instanceDigest = NoDigest
    /\ LastOf(putSignaturesCalls).err = Nil

\* C20: after a successful copy of a manifest list with n instances, the
\* instances were copied one after the other in list order, and for every i
\* the digest and the size that the stored list records for instance i are
\* the digest and the length of the manifest given to the successful
\* PutManifest of instance i, which was addressed with that digest.
C20_StoredListNamesTheStoredInstances ==
    ListCopySucceeded =>
      LET stored == LastOf(putManifestCalls).man
          n == Len(rawSource.images)
      IN /\ Len(stored.Instances) = n
         /\ Len(StoredInstances) = n
         /\ \A i \in 1..n :
               /\ StoredInstances[i].src = rawSource.images[i]
               /\ stored.Instances[i].Digest = ManifestDigest(StoredInstances[i].man)
               /\ stored.Instances[i].Size = ManifestLen(StoredInstances[i].man)
               /\ StoredInstances[i].instanceDigest = stored.Instances[i].Digest

\* a list copy that rewrote the list for MaxInstances converted instances
C20_RewrittenListStored ==
    /\ pc = "done"
    /\ retErr = Nil
    /\ ListCopySucceeded
    /\ Len(rawSource.images) = MaxInstances
    /\ LastOf(putManifestCalls).man.Instances # rawSource.manifest.Instances

\* the OS check returned, and the image configuration could be read
OSCheckReturned == blob.state = "os returned" /\ ~(blob.call.mustMatch /\ blob.call.configErr)

OSRejected == blob.err = Errorf("image operating system cannot be used")

\* C21: when the destination must match the runtime OS, the image is rejected
\* exactly when one of image OS and wanted OS is "windows" and the other is
\* not; when the destination need not match, nothing is rejected.
C21_RejectsExactlyOnWindowsMismatch ==
    OSCheckReturned =>
      (OSRejected <=>
         /\ blob.call.mustMatch
         /\ (blob.call.imageOS = "windows") # (blob.wantedOS = "windows"))

\* what the code does: a Windows target refuses only a "linux" image
C21_WindowsTargetRefusesOnlyLinux ==
    OSCheckReturned =>
      (OSRejected <=>
         /\ blob.call.mustMatch
         /\ \/ blob.wantedOS = "windows" /\ blob.call.imageOS = "linux"
            \/ blob.wantedOS # "windows" /\ blob.call.imageOS = "windows")

\* Image() asked for the instance of the list to copy (lines 192-196)
ChoiceMade == Len(ml.chooseCalls) = 1

\* the entries of the source list with the wanted architecture and OS
MatchingEntries ==
    {i \in 1..Len(rawSource.manifest.Instances) : PlatformOf(i) = ml.chooseCalls[1].ctx}

ChoiceFailed ==
    \/ "Error parsing primary manifest as list" \in Range(retErr)
    \/ "Error choosing an image from manifest list" \in Range(retErr)

\* C22: choosing an instance for a wanted (architecture, OS) gives the digest
\* of an entry of the list whose architecture and OS are the wanted ones; the
\* choice fails when no entry matches and when the list bytes are invalid, and
\* in both cases Image() fails without copying any instance.
C22_ChoiceMatchesThePlatform ==
    ChoiceMade =>
      /\ InstanceChosen =>
            \E i \in MatchingEntries :
               rawSource.manifest.Instances[i].Digest = ml.instanceDigest
      /\ InstanceChosen <=> (ml.chooseCalls[1].valid /\ MatchingEntries # {})
      /\ ~InstanceChosen =>
            /\ Terminal
            /\ ChoiceFailed
            /\ ic = NoIC
            /\ imageOps = {}
            /\ layerResults = <<>>
            /\ putManifestCalls = <<>>
            /\ putSignaturesCalls = <<>>
            /\ commitCalls = <<>>

\* the second entry is chosen and copied
C22_Witness ==
    /\ pc = "done"
    /\ ChoiceMade
    /\ ml.chooseCalls[1].ctx = PlatformOf(2)
    /\ ml.instanceDigest = rawSource.manifest.Instances[2].Digest
    /\ CopySucceeded

\* no entry matches: Image() fails
C22_WitnessNoMatch ==
    /\ pc = "done"
    /\ ChoiceMade
    /\ ml.chooseCalls[1].valid
    /\ MatchingEntries = {}
    /\ ChoiceFailed

\* Image() copies one image: the source itself or the chosen instance of a list
OneImageCopy == ~(isMultiImage(rawSource.manifest) /\ options.MultipleImages = CopyAllImages)

\* the signatures are the retained source signatures followed, when SignBy is
\* set, by a new signature over the manifest man
SignaturesOver(sigs, man) ==
    LET n == Len(sigs)
    IN IF options.SignBy # ""
       THEN /\ n >= 1
            /\ sigs[n] = [by |-> options.SignBy, over |-> man]
            /\ SubSeq(sigs, 1, n - 1) \in SignatureLists
       ELSE sigs \in SignatureLists

\* a PutSignatures call was made only after a PutManifest succeeded, and it
\* carries the signatures over the manifest of that PutManifest
SignedWhatWasStored ==
    putSignaturesCalls # <<>> =>
      /\ Len(putSignaturesCalls) = 1
      /\ putManifestCalls # <<>>
      /\ LastOf(putManifestCalls).err = Nil
      /\ SignaturesOver(putSignaturesCalls[1].sigs, LastOf(putManifestCalls).man)

\* C23: when the copy of an image succeeds, PutSignatures was called exactly
\* once, after the PutManifest that succeeded (also one for a fallback type);
\* with SignBy set the new signature is over the manifest of that PutManifest
\* and comes after the retained source signatures; without any signature the
\* call is made with an empty list.
C23_SignsTheStoredManifest ==
    OneImageCopy =>
      /\ SignedWhatWasStored
      /\ pc = "Commit" => Len(putSignaturesCalls) = 1

\* the same, for the copies in which the policy check allowed the image
C23_SignsTheStoredManifestIfAllowed ==
    (OneImageCopy /\ (pc = "Commit" => "policy allows" \in imageOps)) =>
      /\ SignedWhatWasStored
      /\ pc = "Commit" => Len(putSignaturesCalls) = 1

\* a fallback type was stored and signed
C23_FallbackSigned ==
    /\ OneImageCopy
    /\ pc = "Commit"
    /\ options.SignBy # ""
    /\ Len(putManifestCalls) > 1
    /\ Len(putSignaturesCalls) = 1
    /\ Len(putSignaturesCalls[1].sigs) = 1

\* copyBlobFromStream has returned without error
PipeBlobSucceeded == PipeBlobReturned /\ blob.merr = Nil

C24_AtReturn ==
    /\ blob.state = "pipe" /\ blob.validationFailed => blob.pos = Len(blob.data)
    /\ PipeBlobSucceeded /\ ~blob.compress => blob.put.same

C24_FlagStep ==
    blob.state = "pipe" =>
      \* the final checks let the copy succeed only with the flag unset
      /\ (blob.mpc = "checks" /\ blob'.mpc = "return" /\ blob'.merr = Nil)
            => ~blob.validationFailed
      \* the flag is set only at end-of-input, by a validation that failed
      /\ (~blob.validationFailed /\ blob'.validationFailed) =>
            /\ blob.pos = Len(blob.data)
            /\ DigestOf(blob.data) # blob.digest \/ blob'.readers = {"main", "compressor"}
      \* and it is never cleared
      /\ blob.validationFailed => blob'.validationFailed

\* C24: copyBlobFromStream returns success only if validationFailed is unset
\* at its final checks and, when the info given to PutBlob carried a digest,
\* PutBlob returned that digest; validationFailed is set only when
\* end-of-input was met and the computed digest was not the expected one, and
\* once set it stays set.
C24_ValidationFlag == [](C24_AtReturn) /\ [][C24_FlagStep]_vars

\* the flag alone fails the copy: the drain met the mismatch after PutBlob
\* had returned early
C24_Witness ==
    /\ PipeBlobReturned
    /\ blob.validationFailed
    /\ blob.merr # Nil
    /\ ~blob.put.fails

\* PutBlob returned another digest and the copy failed for that alone
C24_WitnessDigest ==
    /\ PipeBlobReturned
    /\ ~blob.validationFailed
    /\ blob.merr = Errorf("Internal error writing blob, blob saved with another digest")

\* how often a backend call was made by the layer copy
LayerCallCount(op) == Cardinality({i \in 1..Len(blob.result.ops) : blob.result.ops[i] = op})

\* HasBlob reported the blob present and no DiffID has to be computed
LayerCanBeSkipped == ~blob.draw.has.err /\ blob.draw.has.present /\ ~LayerNeedsDiffID

\* what the skip path leaves behind: no GetBlob, no PutBlob, the cache as it
\* was, and on success ReapplyBlob's BlobInfo with the cached DiffID
LayerSkipResult ==
    /\ LayerCallCount("GetBlob") = 0
    /\ LayerCallCount("PutBlob") = 0
    /\ blob.result.cachedDiffIDs = blob.call.cached
    /\ blob.result.err = Nil =>
          /\ blob.result.info = BlobInfo(blob.draw.reapply.digest, blob.draw.has.size, FALSE)
          /\ blob.result.diffID = blob.call.cached[blob.call.srcInfo.Digest]

\* C25 as stated: on the skip path GetBlob and PutBlob are not called,
\* ReapplyBlob is called exactly once, the cache is unchanged and the result is
\* ReapplyBlob's BlobInfo with the cached DiffID; in every other case GetBlob
\* and PutBlob are each called exactly once and ReapplyBlob is not called.
C25_SkipOrFetchExactlyOnce ==
    LayerReturned =>
      IF LayerCanBeSkipped
      THEN LayerSkipResult /\ LayerCallCount("ReapplyBlob") = 1
      ELSE /\ LayerCallCount("GetBlob") = 1
           /\ LayerCallCount("PutBlob") = 1
           /\ LayerCallCount("ReapplyBlob") = 0

\* C25, amended: on the skip path GetBlob and PutBlob are not called, the cache
\* is unchanged, ReapplyBlob is called exactly once unless the sizes conflict
\* (then it is not called and the copy fails), and the result is ReapplyBlob's
\* BlobInfo with the cached DiffID; in every other case ReapplyBlob is not
\* called, GetBlob is called exactly once unless HasBlob failed, and PutBlob is
\* called at most once, exactly once when the layer copy succeeds and never
\* when GetBlob was not called or failed.
C25_SkipOrFetchUnlessFailed ==
    LayerReturned =>
      IF LayerCanBeSkipped
      THEN /\ LayerSkipResult
           /\ LayerCallCount("ReapplyBlob") = IF LayerSizeConflict THEN 0 ELSE 1
           /\ LayerSizeConflict => blob.result.err # Nil
      ELSE /\ LayerCallCount("ReapplyBlob") = 0
           /\ LayerCallCount("GetBlob") = IF blob.draw.has.err THEN 0 ELSE 1
           /\ LayerCallCount("PutBlob") <= 1
           /\ blob.result.err = Nil => LayerCallCount("PutBlob") = 1
           /\ (blob.draw.has.err \/ blob.draw.get.err) => LayerCallCount("PutBlob") = 0

\* the skip path taken with a cached DiffID although DiffIDs are needed
C25_Witness ==
    /\ LayerReturned
    /\ LayerCanBeSkipped
    /\ blob.call.diffIDsAreNeeded
    /\ blob.result.err = Nil
    /\ blob.result.ops = <<"HasBlob", "ReapplyBlob">>
    /\ blob.result.diffID # NoDigest

\* the fetch path taken although the destination has the blob
C25_WitnessFetch ==
    /\ LayerReturned
    /\ blob.draw.has.present
    /\ LayerNeedsDiffID
    /\ blob.result.err = Nil
    /\ blob.result.ops = <<"HasBlob", "GetBlob", "PutBlob">>

\* the three conditions of line 841 for compressing on the fly
BlobShouldBeCompressed ==
    /\ blob.call.canCompress
    /\ ~DetectCompression(blob.call.data)
    /\ blob.draw.shouldCompress

BlobSrcInfo == BlobInfo(blob.call.digest, Len(blob.call.data), FALSE)

\* C26: PutBlob is given an info with no digest and size -1, and a compressor
\* task is started, exactly when the caller allows compression, the input is
\* not compressed and the destination opts into compressed layers; otherwise
\* PutBlob is given the source info unchanged and no compressor is started.
\* A blob copied as the config is (compression not allowed, no DiffID
\* recorder) is stored only under the digest of the source info.
C26_CompressedExactlyWhenAllowedAndWanted ==
    (BlobReturned /\ blob.result.called) =>
      /\ blob.result.compress <=> BlobShouldBeCompressed
      /\ BlobShouldBeCompressed => blob.result.inputInfo = BlobInfo(NoDigest, -1, FALSE)
      /\ ~BlobShouldBeCompressed => blob.result.inputInfo = BlobSrcInfo
      /\ (~blob.call.canCompress /\ ~blob.call.tee /\ blob.result.err = Nil) =>
            /\ ~blob.result.compress
            /\ blob.result.info.Digest = blob.call.digest

\* a blob is compressed on the fly and stored under another digest
C26_Witness ==
    /\ BlobReturned
    /\ BlobShouldBeCompressed
    /\ blob.result.compress
    /\ blob.result.err = Nil
    /\ blob.result.info.Digest # blob.call.digest

\* the destination wants compressed layers but the caller does not allow it
C26_WitnessConfig ==
    /\ BlobReturned
    /\ ~blob.call.canCompress /\ ~blob.call.tee
    /\ blob.draw.shouldCompress
    /\ ~DetectCompression(blob.call.data)
    /\ blob.result.err = Nil

\* C27: the layer copy never deadlocks: the main task always returns from the
\* layer copy (its receive on the DiffID channel completes), and on every exit
\* path the compressor task and the DiffID task that were started terminate
\* in the end, the DiffID task's one send finding room in the channel.
C27_LayerCopyTerminates ==
    /\ <>PipeLayerReturned
    /\ (blob.mpc = "waitDiffID") ~> PipeLayerReturned
    /\ <>[](AliveTasks(blob) = {})

\* a compressor task that outlived the layer copy has ended
C27_Witness ==
    /\ PipeLayerReturned
    /\ blob.aliveAtLayerReturn = {"compressor", "diffID"}
    /\ AliveTasks(blob) = {}
    /\ blob.diffIDChan = 1

\* the main task received the DiffID
C27_WitnessReceived ==
    /\ PipeLayerReturned
    /\ blob.tee
    /\ blob.merr = Nil
    /\ blob.diffID # NoDigest

----------------------------------------------------------------------------
(* The DiffIDs copyLayers records                                            *)

\* copyLayers returned without error while DiffIDs are needed
LayersCopiedWithDiffIDs ==
    /\ pc = "copyUpdatedConfigAndManifest"
    /\ ic.diffIDsAreNeeded

\* the DiffID cache entry of the i-th layer copied
CachedDiffIDOfLayer(i) == c.cachedDiffIDs[ic.srcInfos[i].Digest]

\* C28: whenever DiffIDs are needed and copyLayers succeeds, the DiffID
\* recorded for every layer is non-empty and equals the DiffID cache entry of
\* the layer's digest, whatever HasBlob answered and whatever the cache held.
C28_RecordedDiffIDsAreTheCachedOnes ==
    LayersCopiedWithDiffIDs =>
        \A i \in 1..Len(ic.manifestUpdates.InformationOnly.LayerDiffIDs) :
            /\ ic.manifestUpdates.InformationOnly.LayerDiffIDs[i] # NoDigest
            /\ ic.manifestUpdates.InformationOnly.LayerDiffIDs[i] = CachedDiffIDOfLayer(i)

\* what the code keeps: a recorded DiffID is the cache entry of its layer, or
\* empty when the layer was read again while its DiffID was already cached
C28_RecordedDiffIDsCachedOrEmpty ==
    LayersCopiedWithDiffIDs =>
        /\ Len(ic.manifestUpdates.InformationOnly.LayerDiffIDs) = Len(ic.srcInfos)
        /\ \A i \in 1..Len(ic.srcInfos) :
              /\ CachedDiffIDOfLayer(i) # NoDigest
              /\ ic.manifestUpdates.InformationOnly.LayerDiffIDs[i]
                     \in {NoDigest, CachedDiffIDOfLayer(i)}
              /\ ic.manifestUpdates.InformationOnly.LayerDiffIDs[i] = NoDigest =>
                     /\ i > 1
                     /\ layerResults[i].ops[2] = "GetBlob"
                     /\ \E j \in 1..(i - 1) : ic.srcInfos[j].Digest = ic.srcInfos[i].Digest

\* a repeated layer was skipped and its cached DiffID recorded
C28_RepeatedLayerSkipped ==
    /\ LayersCopiedWithDiffIDs
    /\ Len(ic.srcInfos) = MaxLayers
    /\ layerResults[MaxLayers].ops = <<"HasBlob", "ReapplyBlob">>
    /\ ic.manifestUpdates.InformationOnly.LayerDiffIDs[MaxLayers] = CachedDiffIDOfLayer(MaxLayers)

----------------------------------------------------------------------------
(* The instance digests given to PutManifest and PutSignatures               *)

\* a step in which the signatures of an instance of a manifest list are stored
InstanceSignaturesStored ==
    /\ pc = "createSignature"
    /\ ic.targetInstance
    /\ Len(putSignaturesCalls') = Len(putSignaturesCalls) + 1

\* the successful PutManifest call of the instance being copied
InstanceManifestStored == LastOf(putManifestCalls)

\* C29: for every instance copied as part of a manifest list, the instance
\* digest passed to PutSignatures equals the instance digest passed to the
\* successful PutManifest of that instance, also when the instance manifest was
\* converted or rewritten and its digest is no longer the source's.
C29_SignaturesStoredUnderTheManifestDigest ==
    [][InstanceSignaturesStored =>
          LastOf(putSignaturesCalls').instanceDigest = InstanceManifestStored.instanceDigest]_vars

\* what the code keeps: the signatures of an instance are stored under the
\* digest of the source instance, the manifest under the digest of what was
\* written; the two agree exactly when the manifest was written unchanged
C29_SignaturesStoredUnderTheSourceDigest ==
    [][InstanceSignaturesStored =>
          /\ InstanceManifestStored.err = Nil
          /\ InstanceManifestStored.src = ic.src
          /\ InstanceManifestStored.instanceDigest = ManifestDigest(InstanceManifestStored.man)
          /\ LastOf(putSignaturesCalls').instanceDigest = ManifestDigest(ic.src)
          /\ (LastOf(putSignaturesCalls').instanceDigest = InstanceManifestStored.instanceDigest)
                <=> (InstanceManifestStored.man = ic.src)]_vars

\* the signatures of an unchanged instance were stored
C29_UnchangedInstanceSigned ==
    /\ putSignaturesCalls # <<>>
    /\ putManifestCalls # <<>>
    /\ LastOf(putSignaturesCalls).instanceDigest # NoDigest
    /\ LastOf(putSignaturesCalls).instanceDigest = LastOf(putManifestCalls).instanceDigest

----------------------------------------------------------------------------
(* dest.SupportsSignatures before dest.PutSignatures                         *)

\* a step in which copyOneImage stores a non-empty list of signatures
ImageSignaturesStored ==
    /\ pc = "createSignature"
    /\ Len(putSignaturesCalls') = Len(putSignaturesCalls) + 1
    /\ LastOf(putSignaturesCalls').sigs # <<>>

\* a step in which copyMultipleImages stores a non-empty list of signatures
ListSignaturesStored ==
    /\ pc = "instanceLoop"
    /\ Len(putSignaturesCalls') = Len(putSignaturesCalls) + 1
    /\ LastOf(putSignaturesCalls').sigs # <<>>

\* C30: whenever PutSignatures is called with a non-empty list of signatures,
\* for an image or for a list, dest.SupportsSignatures was called earlier in
\* the same image or list copy and succeeded, also when the only signature is
\* the one newly created because SignBy is set.
C30_SupportCheckedBeforeSignaturesStored ==
    [][/\ ImageSignaturesStored => "SupportsSignatures" \in imageOps
       /\ ListSignaturesStored => "SupportsSignatures" \in ml.listOps]_vars

\* what the code keeps: the destination is asked exactly when the source has
\* signatures to carry; a list made only of the new signature is stored
\* without the question having been asked
C30_SupportCheckedForSourceSignatures ==
    [][/\ ImageSignaturesStored =>
             /\ "SupportsSignatures" \in imageOps <=> ic.sigs # <<>>
             /\ "SupportsSignatures" \notin imageOps =>
                    /\ options.SignBy # ""
                    /\ Len(LastOf(putSignaturesCalls').sigs) = 1
       /\ ListSignaturesStored =>
             /\ "SupportsSignatures" \in ml.listOps <=> ml.sigs # <<>>
             /\ "SupportsSignatures" \notin ml.listOps =>
                    /\ options.SignBy # ""
                    /\ Len(LastOf(putSignaturesCalls').sigs) = 1]_vars

\* source signatures were stored after the destination said it takes them
C30_CarriedSignaturesStored ==
    /\ putSignaturesCalls # <<>>
    /\ SourceSignature \in Range(LastOf(putSignaturesCalls).sigs)
    /\ "SupportsSignatures" \in imageOps
    /\ "PutSignatures" \in imageOps

\* a single image was stored and signed, and its only signature, the new one,
\* was stored without the destination having been asked
C30_NewSignatureStoredUnasked ==
    /\ Len(putManifestCalls) = 1
    /\ putManifestCalls[1].err = Nil
    /\ ~isMultiImage(putManifestCalls[1].man)
    /\ Len(putSignaturesCalls) = 1
    /\ Len(putSignaturesCalls[1].sigs) = 1
    /\ putSignaturesCalls[1].err = Nil
    /\ "PutSignatures" \in imageOps
    /\ "SupportsSignatures" \notin imageOps

----------------------------------------------------------------------------
(* The layers of an image whose signatures are retained                      *)

\* a layer copy of an image whose signatures are retained has returned
SignedLayerReturned == LayerReturned /\ ~blob.call.canModifyManifest

\* the layer copy called PutBlob
LayerUploaded == LayerCallCount("PutBlob") = 1

C31_WitnessUnsigned ==
    /\ LayerReturned
    /\ blob.call.canModifyManifest
    /\ blob.draw.pipe.shouldCompress
    /\ blob.result.compressed
    /\ blob.result.err = Nil
    /\ blob.result.putBlobInfo.Digest = NoDigest
    /\ blob.result.info.Digest # blob.call.srcInfo.Digest

====
